---------------------------- MODULE Spec2Model ----------------------------
(***************************************************************************)
(* A model of the PARA Archive plugin: archive-path computation            *)
(* (archiver.ts), link rewriting (link-updater.ts) and the archive / undo   *)
(* flow (main.ts) over a document store.                                    *)
(*                                                                          *)
(* Strings are TLA+ strings; TLC evaluates Len, \o and SubSeq on them, so   *)
(* the string code of the plugin (split, startsWith, substring, regular     *)
(* expressions) is modelled character by character.                         *)
(***************************************************************************)
EXTENDS Integers, Sequences, FiniteSets, TLC

VARIABLES
    configs,    \* settings.archiveConfigs: the list the settings tab and the archiver share
    now,        \* the clock reading new Date() returns: [year, month], month 1..12
    files,      \* the store's files: path -> text content
    folders,    \* the store's folders: a set of paths
    settings,   \* the other settings: linkUpdateMode, showConfirmation, showUndoNotice
    flow,       \* the archive request in progress: where it stands and what it holds
    pending,    \* pendingOperations: operation id -> operation record
    timers,     \* the time in ms and the timeouts set: when the notice of an
                \* operation hides, when the operation is cleaned up, and the
                \* operations whose cleanup has run
    call        \* the last call made and what it returned

vars == <<configs, now, files, folders, settings, flow, pending, timers, call>>

\* what only the archive flow of main.ts reads and writes
flowVars == <<settings, flow, pending, timers>>

---------------------------------------------------------------------------
(* Bounds of the model *)

\* longest list of archive configurations
MaxConfigs == 2

\* most archive requests accepted in one behaviour
MaxOps == 1

---------------------------------------------------------------------------
(* JavaScript string operations *)

\* s.charAt(i - 1): the i-th character as a string, "" out of range
Ch(s, i) == IF 1 <= i /\ i <= Len(s) THEN SubSeq(s, i, i) ELSE ""

\* s.startsWith(p)
StartsWith(s, p) == Len(p) <= Len(s) /\ SubSeq(s, 1, Len(p)) = p

\* s.endsWith(p)
EndsWith(s, p) == Len(p) <= Len(s) /\ SubSeq(s, Len(s) - Len(p) + 1, Len(s)) = p

\* s.substring(k): the characters after the first k
Substring(s, k) == SubSeq(s, k + 1, Len(s))

\* s.lastIndexOf(c) + 1 for a one-character c: the last position of c, 0 when absent
RECURSIVE LastIndexFrom(_, _, _)
LastIndexFrom(s, c, i) ==
    IF i = 0 THEN 0
    ELSE IF Ch(s, i) = c THEN i
    ELSE LastIndexFrom(s, c, i - 1)

LastIndexOf(s, c) == LastIndexFrom(s, c, Len(s))

\* s.includes(c) for a one-character c
Includes(s, c) == LastIndexOf(s, c) > 0

\* s.split(c) for a one-character c: always at least one piece, empty pieces kept
RECURSIVE SplitFrom(_, _, _, _)
SplitFrom(s, c, i, piece) ==
    IF i > Len(s) THEN <<piece>>
    ELSE IF Ch(s, i) = c THEN <<piece>> \o SplitFrom(s, c, i + 1, "")
    ELSE SplitFrom(s, c, i + 1, piece \o Ch(s, i))

Split(s, c) == SplitFrom(s, c, 1, "")

\* parts.join(c)
RECURSIVE Join(_, _)
Join(parts, c) ==
    IF Len(parts) = 0 THEN ""
    ELSE IF Len(parts) = 1 THEN parts[1]
    ELSE parts[1] \o c \o Join(Tail(parts), c)

\* parts.pop() || '': the last piece
Last(parts) == IF Len(parts) = 0 THEN "" ELSE parts[Len(parts)]

\* parts after parts.pop()
Front(parts) == IF Len(parts) = 0 THEN parts ELSE SubSeq(parts, 1, Len(parts) - 1)

\* n.toString() for n >= 0
Digit(d) == Ch("0123456789", d + 1)

RECURSIVE NumToString(_)
NumToString(n) == IF n < 10 THEN Digit(n) ELSE NumToString(n \div 10) \o Digit(n % 10)

\* s.padStart(2, '0')
PadStart2(s) == IF Len(s) >= 2 THEN s ELSE IF Len(s) = 1 THEN "0" \o s ELSE "00"

---------------------------------------------------------------------------
(* obsidian.normalizePath: runs of slashes and backslashes become one "/",  *)
(* leading and trailing "/" are dropped, the empty path becomes "/".        *)
(* (Its replacement of no-break spaces and its NFC normalisation act on     *)
(* characters the model's paths do not contain.)                            *)

IsSlash(c) == c = "/" \/ c = "\\"

RECURSIVE CollapseSlashes(_, _)
CollapseSlashes(s, i) ==
    IF i > Len(s) THEN ""
    ELSE IF IsSlash(Ch(s, i))
         THEN (IF i > 1 /\ IsSlash(Ch(s, i - 1)) THEN "" ELSE "/") \o CollapseSlashes(s, i + 1)
         ELSE Ch(s, i) \o CollapseSlashes(s, i + 1)

StripSlashes(s) ==
    LET a == IF StartsWith(s, "/") THEN Substring(s, 1) ELSE s
    IN  IF EndsWith(a, "/") THEN SubSeq(a, 1, Len(a) - 1) ELSE a

normalizePath(p) ==
    LET s == StripSlashes(CollapseSlashes(p, 1))
    IN  IF s = "" THEN "/" ELSE s

---------------------------------------------------------------------------
(* archiver.ts: the path resolver *)

\* Array.prototype.sort with (a, b) => b.rootPath.length - a.rootPath.length:
\* a stable sort, longest rootPath first.  Stable insertion of each element
\* after the elements that are at least as long.
RECURSIVE InsertByLength(_, _)
InsertByLength(sorted, c) ==
    IF Len(sorted) = 0 THEN <<c>>
    ELSE IF Len(sorted[1].rootPath) >= Len(c.rootPath)
         THEN <<sorted[1]>> \o InsertByLength(Tail(sorted), c)
         ELSE <<c>> \o sorted

\* a variant: the sort is left out, the list is searched in the order given
SortSkipped(cs) == cs

RECURSIVE SortByRootLength(_)
SortByRootLength(cs) ==
    IF Len(cs) = 0 THEN <<>>
    ELSE InsertByLength(SortByRootLength(Front(cs)), cs[Len(cs)])

isFileInRoot(filePath, rootPath) ==
    IF rootPath = "" THEN TRUE
    ELSE LET normalizedRoot == normalizePath(rootPath)
             normalizedFile == normalizePath(filePath)
         IN  StartsWith(normalizedFile, normalizedRoot \o "/") \/ normalizedFile = normalizedRoot

NoConfig == [id |-> "none"]

\* the first config of the sorted list whose root contains the path, or null
RECURSIVE FirstInRoot(_, _)
FirstInRoot(filePath, cs) ==
    IF Len(cs) = 0 THEN NoConfig
    ELSE IF isFileInRoot(filePath, cs[1].rootPath) THEN cs[1]
    ELSE FirstInRoot(filePath, Tail(cs))

\* findArchiveConfig's return value; it also leaves the list it was given sorted
findArchiveConfig(filePath, cs) == FirstInRoot(filePath, SortByRootLength(cs))

\* a variant: archivePath is always taken as relative to rootPath
getArchiveFullPathAlwaysJoined(config) ==
    normalizePath(config.rootPath \o "/" \o config.archivePath)

getArchiveFullPath(config) ==
    IF config.rootPath = "" \/ StartsWith(config.archivePath, config.rootPath)
    THEN normalizePath(config.archivePath)
    ELSE normalizePath(config.rootPath \o "/" \o config.archivePath)

isFileInArchive(filePath, cs) ==
    \E i \in 1..Len(cs) :
        LET archiveFullPath == getArchiveFullPath(cs[i])
        IN  StartsWith(filePath, archiveFullPath \o "/") \/ filePath = archiveFullPath

\* a variant: the month is not zero-padded
generateDateBasedPathUnpadded(filePath, archiveBasePath, clock) ==
    LET yearMonth == NumToString(clock.year) \o "-" \o NumToString(clock.month)
        fileName  == Last(Split(filePath, "/"))
    IN  normalizePath(archiveBasePath \o "/" \o yearMonth \o "/" \o fileName)

generateDateBasedPath(filePath, archiveBasePath, clock) ==
    LET yearMonth == NumToString(clock.year) \o "-" \o PadStart2(NumToString(clock.month))
        fileName  == Last(Split(filePath, "/"))
    IN  normalizePath(archiveBasePath \o "/" \o yearMonth \o "/" \o fileName)

\* a variant: the archive root is not put in front of the relative path
generatePathMirrorPathWithoutRoot(filePath, config, archiveBasePath) ==
    LET normalizedRoot == normalizePath(config.rootPath)
    IN  IF config.rootPath # "" /\ StartsWith(filePath, normalizedRoot \o "/")
        THEN normalizePath(normalizedRoot \o "/" \o Substring(filePath, Len(normalizedRoot) + 1))
        ELSE normalizePath(filePath)

\* a variant: only the file name is kept below the archive root
generatePathMirrorPathFlattened(filePath, config, archiveBasePath) ==
    normalizePath(archiveBasePath \o "/" \o Last(Split(filePath, "/")))

generatePathMirrorPath(filePath, config, archiveBasePath) ==
    LET normalizedRoot == normalizePath(config.rootPath)
        relativePath ==
            IF config.rootPath = "" THEN filePath
            ELSE IF StartsWith(filePath, normalizedRoot \o "/")
                 THEN Substring(filePath, Len(normalizedRoot) + 1)
            ELSE IF filePath = normalizedRoot
                 THEN Last(Split(normalizedRoot, "/"))
            ELSE filePath
    IN  normalizePath(archiveBasePath \o "/" \o relativePath)

generateArchivePath(filePath, config, clock) ==
    LET archiveBasePath == getArchiveFullPath(config)
    IN  IF config.archiveMode = "date-based"
        THEN generateDateBasedPath(filePath, archiveBasePath, clock)
        ELSE generatePathMirrorPath(filePath, config, archiveBasePath)

---------------------------------------------------------------------------
(* The document store (obsidian Vault), as the archiver uses it.  A store   *)
(* value is [files: path -> text, folders: set of paths]; the vault root    *)
(* is not an entry.  Every operation either succeeds or throws and changes  *)
(* nothing (a move is atomic from the store's side).                        *)

Store(f, d) == [files |-> f, folders |-> d]

Entries(st) == DOMAIN st.files \cup st.folders

\* vault.getAbstractFileByPath(path) is not null
Exists(st, path) == path \in Entries(st)

\* instanceof TFolder / TFile of vault.getAbstractFileByPath(path)
IsFolder(st, path) == path \in st.folders
IsFile(st, path) == path \in DOMAIN st.files

\* the path of the parent folder, "" for an entry of the vault root
ParentPath(path) ==
    LET k == LastIndexOf(path, "/")
    IN  IF k = 0 THEN "" ELSE SubSeq(path, 1, k - 1)

\* TAbstractFile.name
NameOf(path) == Substring(path, LastIndexOf(path, "/"))

IsUnder(path, folder) == StartsWith(path, folder \o "/")

\* the entries a folder holds directly (TFolder.children)
ChildrenOf(st, folder) == { e \in Entries(st) : ParentPath(e) = folder }

\* the path an entry at or under `from` has after `from` became `to`
Moved(path, from, to) == to \o Substring(path, Len(from))

\* a variant that lets an entry be moved onto an existing one
CanRenameOverwriting(st, from, to) ==
    /\ Exists(st, from)
    /\ ParentPath(to) = "" \/ IsFolder(st, ParentPath(to))
    /\ ~IsUnder(to, from)

\* vault.rename(file, newPath) can succeed: the destination is free, its
\* parent folder exists, and a folder is not moved into itself
CanRename(st, from, to) ==
    /\ Exists(st, from)
    /\ ~Exists(st, to)
    /\ ParentPath(to) = "" \/ IsFolder(st, ParentPath(to))
    /\ ~IsUnder(to, from)

\* a variant that leaves the entry behind and puts a copy at the new path
RenameKeepingSource(st, from, to) ==
    LET goes(e) == e = from \/ IsUnder(e, from)
        come == { Moved(e, from, to) : e \in { x \in DOMAIN st.files : goes(x) } }
    IN  Store([e \in DOMAIN st.files \cup come |->
                  IF e \in DOMAIN st.files THEN st.files[e]
                  ELSE st.files[Moved(e, to, from)]],
              st.folders \cup { Moved(e, from, to) : e \in { x \in st.folders : goes(x) } })

\* vault.rename(file, newPath): the entry and everything under it move
Rename(st, from, to) ==
    LET goes(e) == e = from \/ IsUnder(e, from)
        stay == { e \in DOMAIN st.files : ~goes(e) }
        come == { Moved(e, from, to) : e \in { x \in DOMAIN st.files : goes(x) } }
    IN  Store([e \in stay \cup come |->
                  IF e \in stay THEN st.files[e]
                  ELSE st.files[Moved(e, to, from)]],
              { e \in st.folders : ~goes(e) }
                  \cup { Moved(e, from, to) : e \in { x \in st.folders : goes(x) } })

\* vault.delete(file): the entry and everything under it are removed
Delete(st, path) ==
    LET goes(e) == e = path \/ IsUnder(e, path)
    IN  Store([e \in { x \in DOMAIN st.files : ~goes(x) } |-> st.files[e]],
              { e \in st.folders : ~goes(e) })

\* vault.createFolder(path) can succeed
CanCreateFolder(st, path) ==
    /\ ~Exists(st, path)
    /\ ParentPath(path) = "" \/ IsFolder(st, ParentPath(path))

CreateFolder(st, path) == Store(st.files, st.folders \cup {path})

\* vault.modify(file, data)
Modify(st, path, data) == Store([st.files EXCEPT ![path] = data], st.folders)

\* vault.getMarkdownFiles(): the paths of the files with extension md
IsMarkdown(path) == EndsWith(path, ".md")
MarkdownFiles(st) == { e \in DOMAIN st.files : IsMarkdown(e) }

---------------------------------------------------------------------------
(* archiver.ts: the archive operation executor.  Its methods are modelled   *)
(* as functions from a store to a result [st, err, ...]: st is the store    *)
(* when the method returned or threw, err the message thrown ("" for a      *)
(* normal return), created the folders created and renamed the renames     *)
(* made, both in the order they happened.                                   *)

\* the element of a one-element set.  A result that later steps read several
\* times is bound as the element of a set, so that it is computed once.
TheOne(S) == CHOOSE x \in S : TRUE

\* the prefixes of a folder path, outermost first: pathParts joined one more at a time
RECURSIVE PrefixPaths(_, _)
PrefixPaths(parts, n) ==
    IF n = 0 THEN <<>>
    ELSE PrefixPaths(parts, n - 1) \o <<normalizePath(Join(SubSeq(parts, 1, n), "/"))>>

\* the loop of ensureDirectoryExists over the prefixes still to visit
RECURSIVE CreateMissing(_, _)
CreateMissing(r0, todo) ==
    LET step(r) ==
            IF Len(todo) = 0 \/ r.err # "" THEN r
            ELSE IF Exists(r.st, todo[1]) THEN CreateMissing(r, Tail(todo))
            ELSE IF CanCreateFolder(r.st, todo[1])
                 THEN CreateMissing([r EXCEPT !.st = CreateFolder(r.st, todo[1]),
                                              !.created = Append(r.created, todo[1])],
                                    Tail(todo))
            ELSE [r EXCEPT !.err = "createFolder failed: " \o todo[1]]
    IN  TheOne({ step(r) : r \in {r0} })

\* a variant that creates no folder
ensureDirectoryExistsCreatingNothing(st, filePath) ==
    [st |-> st, err |-> "", created |-> <<>>]

ensureDirectoryExists(st, filePath) ==
    LET directory == ParentPath(filePath)
        r0 == [st |-> st, err |-> "", created |-> <<>>]
    IN  IF directory # "" /\ ~Exists(st, directory)
        THEN LET pathParts == Split(directory, "/")
             IN  CreateMissing(r0, PrefixPaths(pathParts, Len(pathParts)))
        ELSE r0

\* generateUniquePath: the loop, entered with counter and newPath
RECURSIVE UniquePathLoop(_, _, _, _)
UniquePathLoop(st, basePath, counter, newPath) ==
    IF ~Exists(st, newPath) THEN newPath
    ELSE LET pathParts == Split(basePath, ".")
             next == IF Len(pathParts) > 1
                     THEN Join(Front(pathParts), ".") \o " " \o NumToString(counter)
                              \o "." \o Last(pathParts)
                     ELSE basePath \o " " \o NumToString(counter)
         IN  UniquePathLoop(st, basePath, counter + 1, next)

generateUniquePath(st, basePath) == UniquePathLoop(st, basePath, 1, basePath)

\* a set of paths as a list, in the order the store keeps them
RECURSIVE ListOf(_)
ListOf(S) ==
    IF S = {} THEN <<>>
    ELSE LET e == CHOOSE x \in S : TRUE IN <<e>> \o ListOf(S \ {e})

\* every other element of a list, the first included
RECURSIVE EveryOther(_)
EveryOther(l) ==
    IF Len(l) = 0 THEN <<>>
    ELSE IF Len(l) <= 2 THEN <<l[1]>>
    ELSE <<l[1]>> \o EveryOther(SubSeq(l, 3, Len(l)))

\* `for (const child of sourceFolder.children)` while every iteration moves
\* its child out of sourceFolder.  Whether TFolder.children is the array the
\* store itself updates on a move (live: the iteration then skips every
\* second child) or a copy is the store's choice.
ChildrenVisited(st, folder, live) ==
    IF live THEN EveryOther(ListOf(ChildrenOf(st, folder)))
    ELSE ListOf(ChildrenOf(st, folder))

\* mergeFolderContents(sourceFolder, destinationFolder): kids are the
\* children still to visit, r the result so far
RECURSIVE MergeChildren(_, _, _, _)
MergeChild(r, kids, destinationFolder, live) ==
    LET child == kids[1]
        childDestinationPath ==
            normalizePath(destinationFolder \o "/" \o NameOf(child))
    IN  IF IsFolder(r.st, child) /\ IsFolder(r.st, childDestinationPath)
        THEN LET merged(m) ==
                     IF m.err # "" THEN m
                     ELSE MergeChildren([m EXCEPT !.st = Delete(m.st, child)],
                                        Tail(kids), destinationFolder, live)
             IN  TheOne({ merged(m) :
                            m \in {MergeChildren(r, ChildrenVisited(r.st, child, live),
                                                 childDestinationPath, live)} })
        ELSE LET moved(target) ==
                     IF CanRename(r.st, child, target)
                     THEN MergeChildren([r EXCEPT !.st = Rename(r.st, child, target),
                                                  !.renamed = Append(@, <<child, target>>)],
                                        Tail(kids), destinationFolder, live)
                     ELSE [r EXCEPT !.err = "rename failed: " \o child]
             IN  TheOne({ moved(target) :
                            target \in {IF Exists(r.st, childDestinationPath)
                                        THEN generateUniquePath(r.st, childDestinationPath)
                                        ELSE childDestinationPath} })

MergeChildren(r0, kids, destinationFolder, live) ==
    IF Len(kids) = 0 THEN r0
    ELSE TheOne({ IF r.err # "" THEN r ELSE MergeChild(r, kids, destinationFolder, live) :
                    r \in {r0} })

mergeFolderContents(r, sourceFolder, destinationFolder, live) ==
    MergeChildren(r, ChildrenVisited(r.st, sourceFolder, live), destinationFolder, live)

\* archiveFile(file, config): [st, err, created, renamed, destinationPath]
archiveFile(st, filePath, config, clock, live) ==
    LET destinationPath == generateArchivePath(filePath, config, clock)
        r0 == [st |-> st, err |-> "", created |-> <<>>, renamed |-> <<>>,
               destinationPath |-> destinationPath]
        merged(m) == IF m.err # "" THEN m ELSE [m EXCEPT !.st = Delete(m.st, filePath)]
        moved(e) ==
            IF e.err # "" THEN [r0 EXCEPT !.st = e.st, !.err = e.err, !.created = e.created]
            ELSE IF CanRename(e.st, filePath, destinationPath)
                 THEN [r0 EXCEPT !.st = Rename(e.st, filePath, destinationPath),
                                 !.created = e.created,
                                 !.renamed = <<<<filePath, destinationPath>>>>]
            ELSE [r0 EXCEPT !.st = e.st, !.created = e.created,
                            !.err = "rename failed: " \o filePath]
    IN  IF IsFolder(st, filePath) /\ IsFolder(st, destinationPath)
        THEN TheOne({ merged(m) :
                        m \in {mergeFolderContents(r0, filePath, destinationPath, live)} })
        ELSE TheOne({ moved(e) : e \in {ensureDirectoryExists(st, destinationPath)} })

\* a variant that creates the folders of the original path before it looks
\* for the archived item
undoArchiveCreatingFirst(st, operation) ==
    [st |-> ensureDirectoryExists(st, operation.originalPath).st,
     err |-> "Archived file no longer exists and cannot be restored",
     renamed |-> <<>>]

\* undoArchive(operation): [st, err, renamed]
undoArchive(st, operation) ==
    LET r0 == [st |-> st, err |-> "", renamed |-> <<>>]
        restored(to, err) ==
            IF CanRename(st, operation.destinationPath, to)
            THEN [st |-> Rename(st, operation.destinationPath, to), err |-> err,
                  renamed |-> <<<<operation.destinationPath, to>>>>]
            ELSE [r0 EXCEPT !.err = "rename failed: " \o operation.destinationPath]
        back(e) ==
            IF e.err # "" THEN [r0 EXCEPT !.st = e.st, !.err = e.err]
            ELSE IF CanRename(e.st, operation.destinationPath, operation.originalPath)
                 THEN [st |-> Rename(e.st, operation.destinationPath, operation.originalPath),
                       err |-> "",
                       renamed |-> <<<<operation.destinationPath, operation.originalPath>>>>]
            ELSE [r0 EXCEPT !.st = e.st,
                            !.err = "rename failed: " \o operation.destinationPath]
    IN  IF ~Exists(st, operation.destinationPath)
        THEN [r0 EXCEPT !.err = "Archived file no longer exists and cannot be restored"]
        ELSE IF Exists(st, operation.originalPath)
             THEN TheOne({ restored(uniquePath,
                                    "Original location is occupied. File restored to: "
                                        \o uniquePath) :
                             uniquePath \in {generateUniquePath(st, operation.originalPath)} })
        ELSE TheOne({ back(e) : e \in {ensureDirectoryExists(st, operation.originalPath)} })

---------------------------------------------------------------------------
(* The store's link resolution, MetadataCache.getFirstLinkpathDest(linkpath, *)
(* sourcePath), as the link updater calls it: the linkpath is taken as      *)
(* written (no subpath is split off, a missing extension means md).  A path *)
(* starting with ./ or ../ is taken from the folder of the source document; *)
(* otherwise a path that is a whole vault path wins, then the files whose   *)
(* path ends with /linkpath, one in the folder of the source first.         *)

IsSpace(c) == c = " " \/ c = "\n" \/ c = "\t"

\* s.trim()
RECURSIVE TrimStart(_)
TrimStart(s) == IF s # "" /\ IsSpace(Ch(s, 1)) THEN TrimStart(Substring(s, 1)) ELSE s

RECURSIVE TrimEnd(_)
TrimEnd(s) ==
    IF s # "" /\ IsSpace(Ch(s, Len(s))) THEN TrimEnd(SubSeq(s, 1, Len(s) - 1)) ELSE s

Trim(s) == TrimEnd(TrimStart(s))

\* the segments of folder/relative with "." dropped and ".." taking one segment back
RECURSIVE ApplyDots(_, _)
ApplyDots(stack, parts) ==
    IF Len(parts) = 0 THEN stack
    ELSE IF parts[1] = "." \/ parts[1] = "" THEN ApplyDots(stack, Tail(parts))
    ELSE IF parts[1] = ".." THEN ApplyDots(Front(stack), Tail(parts))
    ELSE ApplyDots(Append(stack, parts[1]), Tail(parts))

ResolveFrom(folder, relative) ==
    Join(ApplyDots(IF folder = "" THEN <<>> ELSE Split(folder, "/"), Split(relative, "/")), "/")

\* the linkpath without its leading ./ and ../
RECURSIVE StripDots(_)
StripDots(linkpath) ==
    IF StartsWith(linkpath, "./") THEN StripDots(Substring(linkpath, 2))
    ELSE IF StartsWith(linkpath, "../") THEN StripDots(Substring(linkpath, 3))
    ELSE IF StartsWith(linkpath, "/") THEN StripDots(Substring(linkpath, 1))
    ELSE linkpath

NoFile == "<null>"

\* the file a path names, with or without the md extension
FileAt(st, path) ==
    IF IsFile(st, path) THEN path
    ELSE IF IsFile(st, path \o ".md") THEN path \o ".md"
    ELSE NoFile

\* the best of several candidates: the shortest path
BestOf(cands) ==
    CHOOSE c \in cands : \A d \in cands : Len(c) <= Len(d)

getFirstLinkpathDest(st, linkpath, sourcePath) ==
    LET sourceFolder == ParentPath(sourcePath)
        dotted == StartsWith(linkpath, "./") \/ StartsWith(linkpath, "../")
        relativeHit == IF dotted THEN FileAt(st, ResolveFrom(sourceFolder, linkpath))
                       ELSE NoFile
        plain == StripDots(linkpath)
        ending == { f \in DOMAIN st.files :
                      EndsWith(f, "/" \o plain) \/ EndsWith(f, "/" \o plain \o ".md") }
        beside == { f \in ending : ParentPath(f) = sourceFolder }
    IN  IF linkpath = "" THEN (IF IsFile(st, sourcePath) THEN sourcePath ELSE NoFile)
        ELSE IF relativeHit # NoFile THEN relativeHit
        ELSE IF plain = "" THEN NoFile
        ELSE IF FileAt(st, plain) # NoFile THEN FileAt(st, plain)
        ELSE IF beside # {} THEN BestOf(beside)
        ELSE IF ending # {} THEN BestOf(ending)
        ELSE NoFile

---------------------------------------------------------------------------
(* link-updater.ts: the reference rewriter *)

\* the first position >= i of the one-character c in s, 0 when there is none
RECURSIVE IndexOfFrom(_, _, _)
IndexOfFrom(s, c, i) ==
    IF i > Len(s) THEN 0
    ELSE IF Ch(s, i) = c THEN i
    ELSE IndexOfFrom(s, c, i + 1)

\* the length of the longest prefix of s made of characters outside stop
RECURSIVE RunLength(_, _, _)
RunLength(s, stop, n) ==
    IF n >= Len(s) \/ Ch(s, n + 1) \in stop THEN n
    ELSE RunLength(s, stop, n + 1)

\* path.replace(/\.[^/.]+$/, ''): the extension of the last segment dropped
StripExtension(path) ==
    LET k == LastIndexOf(path, ".")
    IN  IF k > 0 /\ k < Len(path) /\ ~Includes(Substring(path, k), "/")
        THEN SubSeq(path, 1, k - 1)
        ELSE path

\* TFile.basename: the name without its extension
BasenameOf(path) ==
    LET name == NameOf(path)
        k == LastIndexOf(name, ".")
    IN  IF k > 0 THEN SubSeq(name, 1, k - 1) ELSE name

\* the number of leading parts two lists share
RECURSIVE CommonLength(_, _)
CommonLength(a, b) ==
    IF Len(a) = 0 \/ Len(b) = 0 \/ a[1] # b[1] THEN 0
    ELSE 1 + CommonLength(Tail(a), Tail(b))

RECURSIVE UpDirs(_)
UpDirs(n) == IF n = 0 THEN <<>> ELSE <<"..">> \o UpDirs(n - 1)

\* a variant that counts the referencing document itself as a directory
getRelativePathFromTheDocument(fromPath, toPath) ==
    LET fromParts == Split(fromPath, "/")
        toParts == Split(toPath, "/")
        commonLength == CommonLength(fromParts, toParts)
    IN  Join(UpDirs(Len(fromParts) - commonLength)
                 \o SubSeq(toParts, commonLength + 1, Len(toParts)), "/")

getRelativePath(fromPath, toPath) ==
    LET fromParts == Front(Split(fromPath, "/"))
        toParts == Split(toPath, "/")
        commonLength == CommonLength(fromParts, toParts)
    IN  Join(UpDirs(Len(fromParts) - commonLength)
                 \o SubSeq(toParts, commonLength + 1, Len(toParts)), "/")

\* a variant that takes every name for unique
isFilenameUniqueAssumed(st, filename) == TRUE

isFilenameUnique(st, filename) ==
    Cardinality({ f \in MarkdownFiles(st) : BasenameOf(f) = filename }) <= 1

\* What /\[\[([^\]|#^]+)([#^][^\]|]*)?\|?([^\]]*)?\]\]/ matches at position i:
\* [[, then everything up to the first ], which must be followed by a second
\* ]; the text between starts with the link path (at least one character
\* other than | # ^), then an anchor (# or ^ up to the next |), then the
\* alias after an optional |.
WikilinkAt(s, i) ==
    LET close == IndexOfFrom(s, "]", i + 2)
        body == SubSeq(s, i + 2, close - 1)
        n == RunLength(body, {"|", "#", "^"}, 0)
        rest == Substring(body, n)
        a == IF Ch(rest, 1) \in {"#", "^"} THEN 1 + RunLength(Substring(rest, 1), {"|"}, 0)
             ELSE 0
        rest2 == Substring(rest, a)
    IN  IF Ch(s, i) = "[" /\ Ch(s, i + 1) = "[" /\ close > 0 /\ Ch(s, close + 1) = "]" /\ n >= 1
        THEN [matched |-> TRUE, last |-> close + 1,
              linkPath |-> SubSeq(body, 1, n),
              anchor |-> SubSeq(rest, 1, a),
              alias |-> IF Ch(rest2, 1) = "|" THEN Substring(rest2, 1) ELSE rest2]
        ELSE [matched |-> FALSE]

\* a variant that never writes an alias
WikilinkReplacementWithoutAlias(st, match, m, oldPath, newPath, newRelativePath, currentFilePath) ==
    LET resolvedFile == getFirstLinkpathDest(st, Trim(m.linkPath), currentFilePath)
        newFileName == StripExtension(Last(Split(newPath, "/")))
        newLinkPath == IF isFilenameUnique(st, newFileName) THEN newFileName
                       ELSE StripExtension(newRelativePath)
    IN  IF resolvedFile # NoFile /\ resolvedFile = oldPath
        THEN "[[" \o newLinkPath \o m.anchor \o "]]"
        ELSE match

\* a variant that drops the fragment
WikilinkReplacementWithoutAnchor(st, match, m, oldPath, newPath, newRelativePath, currentFilePath) ==
    LET resolvedFile == getFirstLinkpathDest(st, Trim(m.linkPath), currentFilePath)
        newFileName == StripExtension(Last(Split(newPath, "/")))
        newLinkPath == IF isFilenameUnique(st, newFileName) THEN newFileName
                       ELSE StripExtension(newRelativePath)
        aliasPart == IF m.alias # "" THEN "|" \o m.alias
                     ELSE IF newLinkPath # newFileName /\ Includes(newLinkPath, "/")
                          THEN "|" \o newFileName
                     ELSE ""
    IN  IF resolvedFile # NoFile /\ resolvedFile = oldPath
        THEN "[[" \o newLinkPath \o aliasPart \o "]]"
        ELSE match

\* the replacement of one wikilink match (the callback of content.replace)
WikilinkReplacement(st, match, m, oldPath, newPath, newRelativePath, currentFilePath) ==
    LET resolvedFile == getFirstLinkpathDest(st, Trim(m.linkPath), currentFilePath)
        newFileName == StripExtension(Last(Split(newPath, "/")))
        newLinkPath == IF isFilenameUnique(st, newFileName) THEN newFileName
                       ELSE StripExtension(newRelativePath)
        aliasPart == IF m.alias # "" THEN "|" \o m.alias
                     ELSE IF newLinkPath # newFileName /\ Includes(newLinkPath, "/")
                          THEN "|" \o newFileName
                     ELSE ""
    IN  IF resolvedFile # NoFile /\ resolvedFile = oldPath
        THEN "[[" \o newLinkPath \o m.anchor \o aliasPart \o "]]"
        ELSE match

RECURSIVE ReplaceWikilinks(_, _, _, _, _, _, _)
ReplaceWikilinks(st, s, i, oldPath, newPath, newRelativePath, currentFilePath) ==
    IF i > Len(s) THEN ""
    ELSE LET m == WikilinkAt(s, i)
         IN  IF m.matched
             THEN WikilinkReplacement(st, SubSeq(s, i, m.last), m, oldPath, newPath,
                                      newRelativePath, currentFilePath)
                  \o ReplaceWikilinks(st, s, m.last + 1, oldPath, newPath,
                                      newRelativePath, currentFilePath)
             ELSE Ch(s, i) \o ReplaceWikilinks(st, s, i + 1, oldPath, newPath,
                                               newRelativePath, currentFilePath)

updateWikilinks(st, content, oldPath, newPath, newRelativePath, currentFilePath) ==
    ReplaceWikilinks(st, content, 1, oldPath, newPath, newRelativePath, currentFilePath)

\* What /(!?)\[([^\]]*)\]\(([^)]+)\)/ matches at position i: an optional !,
\* [, the text up to the first ], then ( directly after it, then at least
\* one character up to the first ).
MarkdownLinkAt(s, i) ==
    LET isEmbed == IF Ch(s, i) = "!" THEN "!" ELSE ""
        open == i + Len(isEmbed)
        close == IndexOfFrom(s, "]", open + 1)
        paren == IndexOfFrom(s, ")", close + 2)
    IN  IF Ch(s, open) = "[" /\ close > 0 /\ Ch(s, close + 1) = "(" /\ paren > close + 2
        THEN [matched |-> TRUE, last |-> paren, isEmbed |-> isEmbed,
              text |-> SubSeq(s, open + 1, close - 1),
              linkPath |-> SubSeq(s, close + 2, paren - 1)]
        ELSE [matched |-> FALSE]

\* a variant that rewrites every inline link, whatever it resolves to
MarkdownLinkReplacementUnresolved(st, match, m, oldPath, newPath, currentFilePath) ==
    m.isEmbed \o "[" \o m.text \o "](" \o getRelativePath(currentFilePath, newPath) \o ")"

\* a variant that writes the file name of newPath as the target
MarkdownLinkReplacementBareName(st, match, m, oldPath, newPath, currentFilePath) ==
    LET resolvedFile == getFirstLinkpathDest(st, Trim(m.linkPath), currentFilePath)
    IN  IF resolvedFile # NoFile /\ resolvedFile = oldPath
        THEN m.isEmbed \o "[" \o m.text \o "](" \o Last(Split(newPath, "/")) \o ")"
        ELSE match

\* the replacement of one markdown link match
MarkdownLinkReplacement(st, match, m, oldPath, newPath, currentFilePath) ==
    LET resolvedFile == getFirstLinkpathDest(st, Trim(m.linkPath), currentFilePath)
    IN  IF resolvedFile # NoFile /\ resolvedFile = oldPath
        THEN m.isEmbed \o "[" \o m.text \o "](" \o getRelativePath(currentFilePath, newPath) \o ")"
        ELSE match

RECURSIVE ReplaceMarkdownLinks(_, _, _, _, _, _)
ReplaceMarkdownLinks(st, s, i, oldPath, newPath, currentFilePath) ==
    IF i > Len(s) THEN ""
    ELSE LET m == MarkdownLinkAt(s, i)
         IN  IF m.matched
             THEN MarkdownLinkReplacement(st, SubSeq(s, i, m.last), m, oldPath, newPath,
                                          currentFilePath)
                  \o ReplaceMarkdownLinks(st, s, m.last + 1, oldPath, newPath, currentFilePath)
             ELSE Ch(s, i) \o ReplaceMarkdownLinks(st, s, i + 1, oldPath, newPath,
                                                   currentFilePath)

updateMarkdownLinks(st, content, oldPath, newPath, currentFilePath) ==
    ReplaceMarkdownLinks(st, content, 1, oldPath, newPath, currentFilePath)

updateLinksInContent(st, content, oldPath, newPath, currentFilePath) ==
    LET newRelativePath == getRelativePath(currentFilePath, newPath)
        afterWikilinks == updateWikilinks(st, content, oldPath, newPath, newRelativePath,
                                          currentFilePath)
    IN  updateMarkdownLinks(st, afterWikilinks, oldPath, newPath, currentFilePath)

\* a variant that keeps the documents the rewrite leaves as they are
RECURSIVE PrepareForKeepingUnchanged(_, _, _, _)
PrepareForKeepingUnchanged(st, todo, oldPath, newPath) ==
    IF Len(todo) = 0 THEN <<>>
    ELSE LET file == todo[1]
             content == st.files[file]
             newContent == updateLinksInContent(st, content, oldPath, newPath, file)
         IN  <<[file |-> file, oldContent |-> content, newContent |-> newContent]>>
             \o PrepareForKeepingUnchanged(st, Tail(todo), oldPath, newPath)

\* prepareLinkUpdates: the loop over the markdown files still to read
RECURSIVE PrepareFor(_, _, _, _)
PrepareFor(st, todo, oldPath, newPath) ==
    IF Len(todo) = 0 THEN <<>>
    ELSE LET file == todo[1]
             content == st.files[file]
             newContent == updateLinksInContent(st, content, oldPath, newPath, file)
         IN  (IF content # newContent
              THEN <<[file |-> file, oldContent |-> content, newContent |-> newContent]>>
              ELSE <<>>)
             \o PrepareFor(st, Tail(todo), oldPath, newPath)

prepareLinkUpdates(st, oldPath, newPath) ==
    PrepareFor(st, ListOf(MarkdownFiles(st)), oldPath, newPath)

\* prepareFolderLinkUpdates: the loop over the files of the folder
RECURSIVE PrepareFolderFor(_, _, _, _)
PrepareFolderFor(st, todo, oldFolderPath, newFolderPath) ==
    IF Len(todo) = 0 THEN <<>>
    ELSE LET fileInFolder == todo[1]
             relativePath == Substring(fileInFolder, Len(oldFolderPath))
             newFilePath == newFolderPath \o relativePath
         IN  prepareLinkUpdates(st, fileInFolder, newFilePath)
             \o PrepareFolderFor(st, Tail(todo), oldFolderPath, newFolderPath)

prepareFolderLinkUpdates(st, oldFolderPath, newFolderPath) ==
    PrepareFolderFor(st,
                     ListOf({ f \in MarkdownFiles(st) :
                                StartsWith(f, oldFolderPath \o "/") \/ f = oldFolderPath }),
                     oldFolderPath, newFolderPath)

\* the path a file object prepared at `path` has after the renames
RECURSIVE PathAfter(_, _)
PathAfter(path, renamed) ==
    IF Len(renamed) = 0 THEN path
    ELSE PathAfter(IF path = renamed[1][1] \/ IsUnder(path, renamed[1][1])
                   THEN Moved(path, renamed[1][1], renamed[1][2])
                   ELSE path,
                   Tail(renamed))

\* a variant that gives up at the first write that fails
RECURSIVE applyLinkUpdatesUntilFailure(_, _, _, _)
applyLinkUpdatesUntilFailure(r0, updates, renamed, failing) ==
    LET update == updates[1]
        path == PathAfter(update.file, renamed)
        step(r) ==
            IF update.file \notin failing /\ IsFile(r.st, path)
            THEN applyLinkUpdatesUntilFailure(
                     [r EXCEPT !.st = Modify(r.st, path, update.newContent),
                               !.success = @ + 1],
                     Tail(updates), renamed, failing)
            ELSE [r EXCEPT !.failed = Append(@, path)]
    IN  IF Len(updates) = 0 THEN r0
        ELSE TheOne({ step(r) : r \in {r0} })

\* a variant that does not write a document whose text is no longer the
\* text the update was prepared from
RECURSIVE applyLinkUpdatesIfUnchanged(_, _, _, _)
applyLinkUpdatesIfUnchanged(r0, updates, renamed, failing) ==
    LET update == updates[1]
        path == PathAfter(update.file, renamed)
        step(r) ==
            IF /\ update.file \notin failing
               /\ IsFile(r.st, path)
               /\ r.st.files[path] = update.oldContent
            THEN applyLinkUpdatesIfUnchanged(
                     [r EXCEPT !.st = Modify(r.st, path, update.newContent),
                               !.success = @ + 1],
                     Tail(updates), renamed, failing)
            ELSE applyLinkUpdatesIfUnchanged([r EXCEPT !.failed = Append(@, path)],
                                            Tail(updates), renamed, failing)
    IN  IF Len(updates) = 0 THEN r0
        ELSE TheOne({ step(r) : r \in {r0} })

\* applyLinkUpdates(updates): vault.modify throws for the documents of
\* `failing` and for a document that no longer exists
RECURSIVE applyLinkUpdates(_, _, _, _)
applyLinkUpdates(r0, updates, renamed, failing) ==
    LET update == updates[1]
        path == PathAfter(update.file, renamed)
        step(r) ==
            IF update.file \notin failing /\ IsFile(r.st, path)
            THEN applyLinkUpdates([r EXCEPT !.st = Modify(r.st, path, update.newContent),
                                            !.success = @ + 1],
                                  Tail(updates), renamed, failing)
            ELSE applyLinkUpdates([r EXCEPT !.failed = Append(@, path)],
                                  Tail(updates), renamed, failing)
    IN  IF Len(updates) = 0 THEN r0
        ELSE TheOne({ step(r) : r \in {r0} })

---------------------------------------------------------------------------
(* Inputs of the path resolver *)

\* what the settings tab's free-text fields can hold (.eslintrc.js 120-139:
\* no validation, saved on every keystroke)
RootPaths == {"", "P", "P/Q", "P/"}

ArchivePaths == {"Archive", "P/Archive", "PX", ""}

ArchiveModes == {"date-based", "path-mirror"}

\* a configuration as the settings tab creates it (name, shown only, left out)
Config(id, rootPath, archivePath, archiveMode) ==
    [id |-> id, rootPath |-> rootPath, archivePath |-> archivePath,
     archiveMode |-> archiveMode]

\* lists of n configurations; the id of a configuration is c<its first position>.
\* findArchiveConfig and isFileInArchive never read archiveMode: the lists
\* they are called on vary rootPath and archivePath.
ConfigListsOfLen(n) ==
    { [i \in 1..n |-> Config("c" \o NumToString(i), f[i][1], f[i][2], "path-mirror")] :
        f \in [1..n -> RootPaths \X ArchivePaths] }

ConfigLists == UNION { ConfigListsOfLen(n) : n \in 1..MaxConfigs }

\* single configurations, every combination of the fields
SingleConfigs ==
    { Config("c1", r, a, m) : r \in RootPaths, a \in ArchivePaths, m \in ArchiveModes }

\* paths of items of the store (normalised, as the store keeps them)
ItemPaths == {"x.md", "P", "P/x.md", "P/Q", "P/Q/doc.md", "PX/x.md",
              "Archive", "Archive/x.md", "Archive/2025-01/x.md",
              "P/Archive/Q/doc.md", "P/Archive/2025-12/doc.md"}

Clocks == { [year |-> 2025, month |-> 1], [year |-> 2025, month |-> 12] }

NoFiles == [p \in {} |-> ""]

\* DEFAULT_SETTINGS apart from the configurations
DefaultSettings ==
    [linkUpdateMode |-> "always", showConfirmation |-> TRUE, showUndoNotice |-> TRUE,
     undoTimeoutMs |-> 5000]

\* no archive request in progress, n requests accepted so far
Idle(n) == [pc |-> "idle", started |-> n]

NoPending == [id \in {} |-> [originalPath |-> ""]]

\* the plugin after onload: no archive requested yet
\* no timeout set
NoTimers ==
    [ms |-> 0, hide |-> [id \in {} |-> 0], cleanup |-> [id \in {} |-> 0], expired |-> {}]

FlowInit ==
    /\ flow = Idle(0)
    /\ pending = NoPending
    /\ timers = NoTimers

\* the caller has used the result; the next call can be made
Return ==
    /\ call.op # "none"
    /\ call' = [op |-> "none"]
    /\ UNCHANGED <<configs, now, files, folders, flowVars>>

---------------------------------------------------------------------------
(* Config selection and the archived check called on their own: the list    *)
(* and the path are drawn from the sets above.                              *)

InitResolver ==
    /\ configs \in ConfigLists
    /\ now \in Clocks
    /\ files = NoFiles
    /\ folders = {}
    /\ settings = DefaultSettings
    /\ FlowInit
    /\ call = [op |-> "none"]

\* findArchiveConfig(filePath, configs): configs.sort sorts the caller's list in place
FindArchiveConfigCall ==
    \E p \in ItemPaths :
        /\ call.op = "none"
        /\ call' = [op |-> "findArchiveConfig", filePath |-> p,
                    configsBefore |-> configs,
                    ret |-> findArchiveConfig(p, configs)]
        /\ configs' = SortByRootLength(configs)
        /\ UNCHANGED <<now, files, folders, flowVars>>

IsFileInArchiveCall ==
    \E p \in ItemPaths :
        /\ call.op = "none"
        /\ call' = [op |-> "isFileInArchive", filePath |-> p,
                    configsBefore |-> configs,
                    ret |-> isFileInArchive(p, configs)]
        /\ UNCHANGED <<configs, now, files, folders, flowVars>>

NextResolver ==
    \/ FindArchiveConfigCall
    \/ IsFileInArchiveCall
    \/ Return

SpecResolver == InitResolver /\ [][NextResolver]_vars

---------------------------------------------------------------------------
(* Destination computation called on its own: one configuration, the clock  *)
(* and the path are drawn from the sets above.                              *)

InitDestination ==
    /\ configs \in { <<c>> : c \in SingleConfigs }
    /\ now \in Clocks
    /\ files = NoFiles
    /\ folders = {}
    /\ settings = DefaultSettings
    /\ FlowInit
    /\ call = [op |-> "none"]

GenerateArchivePathCall ==
    \E p \in ItemPaths, i \in 1..Len(configs) :
        /\ call.op = "none"
        /\ call' = [op |-> "generateArchivePath", filePath |-> p,
                    config |-> configs[i], clock |-> now,
                    archiveBasePath |-> getArchiveFullPath(configs[i]),
                    ret |-> generateArchivePath(p, configs[i], now)]
        /\ UNCHANGED <<configs, now, files, folders, flowVars>>

NextDestination ==
    \/ GenerateArchivePathCall
    \/ Return

SpecDestination == InitDestination /\ [][NextDestination]_vars

---------------------------------------------------------------------------
(* Relative-path computation called on its own: the referencing document    *)
(* and the target are normalised vault paths of at most MaxDepth segments.  *)

MaxDepth == 3

\* names of folders and documents
SegmentNames == {"a", "b", "n.md"}

\* the normalised paths of at most n segments
RECURSIVE PathsOfDepth(_)
PathsOfDepth(n) ==
    IF n = 1 THEN SegmentNames
    ELSE PathsOfDepth(n - 1)
             \cup { p \o "/" \o name : p \in PathsOfDepth(n - 1), name \in SegmentNames }

NormalizedPaths == PathsOfDepth(MaxDepth)

InitRelative ==
    /\ configs = <<>>
    /\ now = [year |-> 2025, month |-> 1]
    /\ files = NoFiles
    /\ folders = {}
    /\ settings = DefaultSettings
    /\ FlowInit
    /\ call = [op |-> "none"]

GetRelativePathCall ==
    \E fromPath \in NormalizedPaths, toPath \in NormalizedPaths :
        /\ call.op = "none"
        /\ call' = [op |-> "getRelativePath", fromPath |-> fromPath, toPath |-> toPath,
                    ret |-> getRelativePath(fromPath, toPath)]
        /\ UNCHANGED <<configs, now, files, folders, flowVars>>

NextRelative ==
    \/ GetRelativePathCall
    \/ Return

SpecRelative == InitRelative /\ [][NextRelative]_vars

---------------------------------------------------------------------------
(* The reference rewriter called on its own: the texts of two referencing   *)
(* documents are drawn from Texts, the move from Moves.                      *)

\* texts of referencing documents: both link syntaxes, with and without
\* fragment, alias and embed marker, resolving and dangling
Texts == {
    "[[Plan]]",
    "see [[Plan]] and [[Unique|shown]].",
    "![[Plan#h|x]] [[Notes/Plan]]",
    "[[Unique^b]] [[ Unique ]]",
    "[t](Projects/Plan.md) ![a](Notes/Plan.md)",
    "[u](Notes/Unique.md) and [[Missing]] [m](nowhere.md)",
    "[[../Projects/Plan]] [r](../Notes/Unique.md)",
    "text only, [brackets] (parens) ]] [[",
    "[[Plan|]] ![[Unique]]",
    "[[Projects/Plan.md#h]] [t](Plan.md)",
    "[[Plan]] [n](Notes/Plan.md) [[Missing]]",
    "[[Plan|kept]] ![[Plan#h]] [[Plan^b]]",
    "![e](Projects/Plan.md) [t t](Plan.md) [u](Notes/Unique.md)" }

\* the corpus: two documents named Plan, one named Unique, two that refer to them
RewriteVaults ==
    { [p \in {"Projects/Plan.md", "Notes/Plan.md", "Notes/Unique.md",
              "Projects/ref.md", "ref.md"} |->
          CASE p = "Projects/ref.md" -> t1
            [] p = "ref.md" -> t2
            [] OTHER -> ""] : t1 \in Texts, t2 \in Texts }

\* the moves main.ts prepares link updates for: a document and the
\* destination generateArchivePath gives it (the final segment is kept)
Moves ==
    { <<"Projects/Plan.md", "Archive/Projects/Plan.md">>,
      <<"Projects/Plan.md", "Archive/2025-01/Plan.md">>,
      <<"Notes/Unique.md", "Archive/Unique.md">>,
      <<"Notes/Unique.md", "Notes/Archive/Unique.md">> }

InitRewrite ==
    /\ configs = <<Config("default", "", "Archive", "path-mirror")>>
    /\ now = [year |-> 2025, month |-> 1]
    /\ files \in RewriteVaults
    /\ folders = {"Projects", "Notes"}
    /\ settings = DefaultSettings
    /\ FlowInit
    /\ call = [op |-> "none"]

\* updateLinksInContent(content, oldPath, newPath, currentFilePath) on the
\* text of one document of the corpus
UpdateLinksInContentCall ==
    \E d \in MarkdownFiles(Store(files, folders)), mv \in Moves :
        /\ call.op = "none"
        /\ call' = [op |-> "updateLinksInContent", content |-> files[d],
                    oldPath |-> mv[1], newPath |-> mv[2], currentFilePath |-> d,
                    ret |-> updateLinksInContent(Store(files, folders), files[d],
                                                 mv[1], mv[2], d)]
        /\ UNCHANGED <<configs, now, files, folders, flowVars>>

\* the store after vault.rename(oldPath, newPath), the folders of newPath
\* created first as archiveFile creates them
AfterMove(st, oldPath, newPath) ==
    Rename(ensureDirectoryExists(st, newPath).st, oldPath, newPath)

\* updateLinksInContent for the move, then, over the store after the move,
\* updateLinksInContent on the result for the move back
RoundTripCall ==
    \E d \in {"Projects/ref.md", "ref.md"}, mv \in Moves :
        /\ call.op = "none"
        /\ \E forth \in {updateLinksInContent(Store(files, folders), files[d],
                                              mv[1], mv[2], d)} :
               call' = [op |-> "roundTrip", content |-> files[d],
                        oldPath |-> mv[1], newPath |-> mv[2], currentFilePath |-> d,
                        forth |-> forth,
                        back |-> updateLinksInContent(
                                     AfterMove(Store(files, folders), mv[1], mv[2]),
                                     forth, mv[2], mv[1], d)]
        /\ UNCHANGED <<configs, now, files, folders, flowVars>>

\* prepareLinkUpdates twice over the same store; then the move, the updates
\* written by applyLinkUpdates, and prepareLinkUpdates once more
PrepareLinkUpdatesCall ==
    \E mv \in Moves :
        /\ call.op = "none"
        /\ \E first \in {prepareLinkUpdates(Store(files, folders), mv[1], mv[2])} :
           \E applied \in {applyLinkUpdates(
                               [st |-> AfterMove(Store(files, folders), mv[1], mv[2]),
                                success |-> 0, failed |-> <<>>],
                               first, <<mv>>, {})} :
               call' = [op |-> "prepareLinkUpdates", oldPath |-> mv[1], newPath |-> mv[2],
                        first |-> first,
                        second |-> prepareLinkUpdates(Store(files, folders), mv[1], mv[2]),
                        applied |-> applied,
                        third |-> prepareLinkUpdates(applied.st, mv[1], mv[2])]
        /\ UNCHANGED <<configs, now, files, folders, flowVars>>

NextRewrite ==
    \/ UpdateLinksInContentCall
    \/ RoundTripCall
    \/ PrepareLinkUpdatesCall
    \/ Return

SpecRewrite == InitRewrite /\ [][NextRewrite]_vars

---------------------------------------------------------------------------
(* archiver.ts called on its own: archiveFile and generateUniquePath over   *)
(* stores in which the destination of a folder is already there.            *)

\* the folder A that is archived: a document, a folder with a document, a
\* folder with a dot in its name holding a file without extension
SourceFolders == {"A", "A/sub", "A/v1.2"}

SourceFiles == {"A/note.md", "A/sub/n.md", "A/v1.2/README"}

\* what the archive can already hold at the places A would go to
DestinationFolders == {"Archive/A", "Archive/A/sub", "Archive/A/v1.2"}

DestinationFiles ==
    {"Archive/A/note.md", "Archive/A/note 1.md", "Archive/A/sub", "Archive/A/sub/n.md",
     "Archive/A/v1.2/README"}

\* a store is a tree: no path is a file and a folder, every parent is a folder
IsTree(fs, ds) ==
    /\ fs \cap ds = {}
    /\ \A e \in fs \cup ds : ParentPath(e) = "" \/ ParentPath(e) \in ds

\* every file holds its own first path as text, so that it can be told apart
ExecutorVaults ==
    { Store([f \in SourceFiles \cup fs |-> f], SourceFolders \cup {"Archive"} \cup ds) :
        <<fs, ds>> \in { x \in (SUBSET DestinationFiles) \X (SUBSET DestinationFolders) :
                           IsTree(SourceFiles \cup x[1],
                                  SourceFolders \cup {"Archive"} \cup x[2]) } }

\* the items archiveFile is called for
ExecutorItems == {"A", "A/sub", "A/v1.2", "A/note.md"}

InitExecutor ==
    /\ configs = <<Config("default", "", "Archive", "path-mirror")>>
    /\ now = [year |-> 2025, month |-> 1]
    /\ \E st \in ExecutorVaults : files = st.files /\ folders = st.folders
    /\ settings = DefaultSettings
    /\ FlowInit
    /\ call = [op |-> "none"]

\* archiver.archiveFile(file, config)
ArchiveFileCall ==
    \E file \in ExecutorItems \cap Entries(Store(files, folders)) :
    \E live \in IF /\ IsFolder(Store(files, folders), file)
                   /\ IsFolder(Store(files, folders),
                               generateArchivePath(file, configs[1], now))
                THEN BOOLEAN ELSE {FALSE} :
    \E r \in {archiveFile(Store(files, folders), file, configs[1], now, live)} :
        /\ call.op = "none"
        /\ flow.started < MaxOps
        /\ files' = r.st.files
        /\ folders' = r.st.folders
        /\ flow' = Idle(flow.started + 1)
        /\ call' = [op |-> "archiveFile", file |-> file, config |-> configs[1],
                    live |-> live, before |-> Store(files, folders), err |-> r.err,
                    created |-> r.created, renamed |-> r.renamed,
                    destinationPath |-> r.destinationPath]
        /\ UNCHANGED <<configs, now, settings, pending, timers>>

\* generateUniquePath(basePath) for a path that is taken, as mergeFolderContents
\* and undoArchive call it
GenerateUniquePathCall ==
    \E basePath \in Entries(Store(files, folders)) :
        /\ call.op = "none"
        /\ call' = [op |-> "generateUniquePath", basePath |-> basePath,
                    ret |-> generateUniquePath(Store(files, folders), basePath)]
        /\ UNCHANGED <<configs, now, files, folders, flowVars>>

\* archiver.archiveFile(file, config) and, when it has returned, undoArchive
\* of that operation with nothing done to the store in between
ArchiveThenUndoCall ==
    \E file \in ExecutorItems \cap Entries(Store(files, folders)) :
    \E live \in IF /\ IsFolder(Store(files, folders), file)
                   /\ IsFolder(Store(files, folders),
                               generateArchivePath(file, configs[1], now))
                THEN BOOLEAN ELSE {FALSE} :
    \E r \in {archiveFile(Store(files, folders), file, configs[1], now, live)} :
    \E u \in {undoArchive(r.st, [originalPath |-> file,
                                 destinationPath |-> r.destinationPath])} :
        /\ call.op = "none"
        /\ flow.started < MaxOps
        /\ r.err = ""
        /\ files' = u.st.files
        /\ folders' = u.st.folders
        /\ flow' = Idle(flow.started + 1)
        /\ call' = [op |-> "archiveThenUndo", file |-> file, config |-> configs[1],
                    live |-> live, before |-> Store(files, folders),
                    merged |-> IsFolder(Store(files, folders), file)
                                   /\ IsFolder(Store(files, folders), r.destinationPath),
                    archived |-> r.st, renamed |-> r.renamed,
                    destinationPath |-> r.destinationPath, err |-> u.err]
        /\ UNCHANGED <<configs, now, settings, pending, timers>>

NextExecutor ==
    \/ ArchiveFileCall
    \/ ArchiveThenUndoCall
    \/ GenerateUniquePathCall
    \/ Return

SpecExecutor == InitExecutor /\ [][NextExecutor]_vars

---------------------------------------------------------------------------
(* main.ts: the archive flow over a store, from the menu item or command    *)
(* to the undo record.                                                      *)

\* a variant that gives every operation the same id
OperationIdWithoutSuffix(n) == "op"

\* the id showUndoNotice gives the n-th operation (timestamp and random suffix)
OperationId(n) == "op" \o NumToString(n)

\* the updates hold file objects: their paths follow the renames
FollowRenames(linkUpdates, renamed) ==
    [k \in 1..Len(linkUpdates) |->
        [linkUpdates[k] EXCEPT !.file = PathAfter(@, renamed)]]

\* the pending operations after renames in the store
PendingAfter(pend, renamed) ==
    [id \in DOMAIN pend |->
        [pend[id] EXCEPT !.linkUpdates = FollowRenames(@, renamed)]]

\* a variant that writes the link updates before it moves the item
performArchiveWritingFirst(st, pend, file, config, destinationPath, linkUpdates, clock, live, failing, n) ==
    LET written == applyLinkUpdates([st |-> st, success |-> 0, failed |-> <<>>],
                                    linkUpdates, <<>>, failing)
        moved == archiveFile(written.st, file, config, clock, live)
        operation == [originalPath |-> file, destinationPath |-> destinationPath,
                      linkUpdates |-> FollowRenames(linkUpdates, moved.renamed),
                      timestamp |-> clock, config |-> config]
    IN  [st |-> moved.st,
         pending |-> IF moved.err = "" /\ settings.showUndoNotice
                     THEN [id \in DOMAIN pend \cup {OperationId(n)} |->
                              IF id = OperationId(n) THEN operation
                              ELSE PendingAfter(pend, moved.renamed)[id]]
                     ELSE PendingAfter(pend, moved.renamed),
         err |-> moved.err, created |-> moved.created, renamed |-> moved.renamed,
         movedTo |-> moved.destinationPath, applied |-> Len(linkUpdates) > 0,
         success |-> written.success, failed |-> written.failed]

\* performArchive(file, config, destinationPath, linkUpdates) and, when the
\* undo notice is enabled, showUndoNotice: what they leave behind
performArchive(st, pend, file, config, destinationPath, linkUpdates, clock, live, failing, n) ==
    LET applies == settings.linkUpdateMode = "always" /\ Len(linkUpdates) > 0
        appliedLinkUpdates(moved) ==
            IF applies THEN FollowRenames(linkUpdates, moved.renamed) ELSE <<>>
        operation(moved) ==
            [originalPath |-> file, destinationPath |-> destinationPath,
             linkUpdates |-> appliedLinkUpdates(moved), timestamp |-> clock,
             config |-> config]
        noticed(moved, result) ==
            [st |-> result.st,
             pending |-> IF settings.showUndoNotice
                         THEN [id \in DOMAIN pend \cup {OperationId(n)} |->
                                  IF id = OperationId(n) THEN operation(moved)
                                  ELSE PendingAfter(pend, moved.renamed)[id]]
                         ELSE PendingAfter(pend, moved.renamed),
             err |-> "", created |-> moved.created, renamed |-> moved.renamed,
             movedTo |-> moved.destinationPath, applied |-> applies,
             success |-> result.success, failed |-> result.failed]
        archived(moved) ==
            IF moved.err # ""
            THEN [st |-> moved.st, pending |-> PendingAfter(pend, moved.renamed),
                  err |-> moved.err,
                  created |-> moved.created, renamed |-> moved.renamed,
                  movedTo |-> moved.destinationPath, applied |-> FALSE,
                  success |-> 0, failed |-> <<>>]
            ELSE TheOne({ noticed(moved, result) :
                            result \in {IF applies
                                        THEN applyLinkUpdates([st |-> moved.st, success |-> 0,
                                                               failed |-> <<>>],
                                                              linkUpdates, moved.renamed,
                                                              failing)
                                        ELSE [st |-> moved.st, success |-> 0,
                                              failed |-> <<>>]} })
    IN  TheOne({ archived(moved) : moved \in {archiveFile(st, file, config, clock, live)} })

\* a variant that writes the updates again as they are
ReverseLinkUpdatesUnswapped(linkUpdates) == linkUpdates

\* operation.linkUpdates with oldContent and newContent swapped
ReverseLinkUpdates(linkUpdates) ==
    [k \in 1..Len(linkUpdates) |->
        [linkUpdates[k] EXCEPT !.oldContent = linkUpdates[k].newContent,
                               !.newContent = linkUpdates[k].oldContent]]

\* performUndo(operationId) for an operation of the table:
\* [st, pending, err, renamed, reverted, success, failed]
performUndo(st, pend, operationId, failing) ==
    LET operation == pend[operationId]
        done(undone, result) ==
            [st |-> result.st,
             pending |-> [id \in DOMAIN pend \ {operationId} |->
                             PendingAfter(pend, undone.renamed)[id]],
             err |-> "", renamed |-> undone.renamed,
             reverted |-> Len(operation.linkUpdates) > 0,
             success |-> result.success, failed |-> result.failed]
        after(undone) ==
            IF undone.err # ""
            THEN [st |-> undone.st, pending |-> PendingAfter(pend, undone.renamed),
                  err |-> undone.err,
                  renamed |-> undone.renamed, reverted |-> FALSE,
                  success |-> 0, failed |-> <<>>]
            ELSE TheOne({ done(undone, result) :
                            result \in {IF Len(operation.linkUpdates) > 0
                                        THEN applyLinkUpdates(
                                                 [st |-> undone.st, success |-> 0,
                                                  failed |-> <<>>],
                                                 ReverseLinkUpdates(operation.linkUpdates),
                                                 undone.renamed, failing)
                                        ELSE [st |-> undone.st, success |-> 0,
                                              failed |-> <<>>]} })
    IN  TheOne({ after(undone) : undone \in {undoArchive(st, operation)} })

\* a variant that prepares the updates whatever the mode
PreparedLinkUpdatesInEveryMode(st, file, destinationPath) ==
    IF IsFile(st, file) THEN prepareLinkUpdates(st, file, destinationPath)
    ELSE prepareFolderLinkUpdates(st, file, destinationPath)

\* the link updates archiveFile of main.ts prepares for an item
PreparedLinkUpdates(st, file, destinationPath) ==
    IF settings.linkUpdateMode = "never" THEN <<>>
    ELSE IF IsFile(st, file) THEN prepareLinkUpdates(st, file, destinationPath)
    ELSE prepareFolderLinkUpdates(st, file, destinationPath)

\* the choices left to the store while an item is moved and the updates are
\* written: how a merge iterates, and which writes fail
LiveChoices(st, file, config) ==
    IF IsFolder(st, file) /\ IsFolder(st, generateArchivePath(file, config, now))
    THEN BOOLEAN ELSE {FALSE}

FailingChoices(linkUpdates) ==
    IF settings.linkUpdateMode = "always"
    THEN SUBSET { linkUpdates[i].file : i \in 1..Len(linkUpdates) }
    ELSE {{}}

\* a variant that sets no timeout for the table
TimersSetForTheNoticeOnly(t, operationId, undoTimeoutMs) ==
    [t EXCEPT !.hide = [id \in DOMAIN t.hide \cup {operationId} |->
                           IF id = operationId THEN t.ms + undoTimeoutMs ELSE t.hide[id]]]

\* showUndoNotice: the notice hides itself after the timeout, the operation
\* is deleted from the table a second later
TimersSet(t, operationId, undoTimeoutMs) ==
    [t EXCEPT !.hide = [id \in DOMAIN t.hide \cup {operationId} |->
                           IF id = operationId THEN t.ms + undoTimeoutMs ELSE t.hide[id]],
              !.cleanup = [id \in DOMAIN t.cleanup \cup {operationId} |->
                              IF id = operationId THEN t.ms + undoTimeoutMs + 1000
                              ELSE t.cleanup[id]]]

\* a variant in which the notice keeps its Undo button
ButtonKept(t, operationId) == t

\* the notice of an operation no longer shows its Undo button
ButtonGone(t, operationId) ==
    [t EXCEPT !.hide = [id \in DOMAIN t.hide \ {operationId} |-> t.hide[id]]]

\* performArchive has run for the n-th request: the store and the pending
\* table it leaves, and the record of the call
Performed(file, config, destinationPath, preparedAt, linkUpdates, live, failing, n) ==
    LET st == Store(files, folders)
    IN  \E r \in {performArchive(st, pending, file, config, destinationPath, linkUpdates,
                                 now, live, failing, n)} :
        /\ files' = r.st.files
        /\ folders' = r.st.folders
        /\ pending' = r.pending
        /\ timers' = IF r.err = "" /\ settings.showUndoNotice
                     THEN TimersSet(timers, OperationId(n), settings.undoTimeoutMs)
                     ELSE timers
        /\ flow' = Idle(n)
        /\ call' = [op |-> "performArchive", file |-> file, config |-> config,
                    isFile |-> IsFile(st, file),
                    destinationPath |-> destinationPath, preparedAt |-> preparedAt,
                    linkUpdates |-> linkUpdates, failing |-> failing,
                    clock |-> now, before |-> st,
                    pendingBefore |-> pending, err |-> r.err, created |-> r.created,
                    renamed |-> r.renamed, movedTo |-> r.movedTo, applied |-> r.applied,
                    success |-> r.success, failed |-> r.failed]

\* archiveFile(file) of main.ts ends with a notice: no configuration applies,
\* or the item is already in an archive
ArchiveFileRefused ==
    \E file \in Entries(Store(files, folders)) :
        LET config == findArchiveConfig(file, configs)
            sorted == SortByRootLength(configs)
        IN  /\ call.op = "none"
            /\ flow.pc = "idle"
            /\ flow.started < MaxOps
            /\ config = NoConfig \/ isFileInArchive(file, sorted)
            /\ configs' = sorted
            /\ call' = [op |-> "archiveFile", file |-> file, outcome |-> "refused",
                        notice |-> IF config = NoConfig
                                   THEN "No archive configuration found for this file location"
                                   ELSE "File is already in an archive folder",
                        configsBefore |-> configs,
                        before |-> Store(files, folders), pendingBefore |-> pending]
            /\ UNCHANGED <<now, files, folders, settings, flow, pending, timers>>

\* archiveFile(file) of main.ts opens the confirmation dialog
ArchiveFileAsks ==
    \E file \in Entries(Store(files, folders)) :
        LET st == Store(files, folders)
            config == findArchiveConfig(file, configs)
            sorted == SortByRootLength(configs)
            destinationPath == generateArchivePath(file, config, now)
        IN  /\ call.op = "none"
            /\ flow.pc = "idle"
            /\ flow.started < MaxOps
            /\ config # NoConfig
            /\ ~isFileInArchive(file, sorted)
            /\ settings.showConfirmation
            /\ configs' = sorted
            /\ flow' = [pc |-> "confirm", started |-> flow.started + 1, file |-> file,
                        config |-> config, destinationPath |-> destinationPath,
                        preparedAt |-> now,
                        linkUpdates |-> PreparedLinkUpdates(st, file, destinationPath)]
            /\ call' = [op |-> "archiveFile", file |-> file, outcome |-> "asked",
                        configsBefore |-> configs,
                        before |-> st, pendingBefore |-> pending]
            /\ UNCHANGED <<now, files, folders, settings, pending, timers>>

\* archiveFile(file) of main.ts goes on to performArchive without a dialog
ArchiveFileDirect ==
    \E file \in Entries(Store(files, folders)) :
        LET st == Store(files, folders)
            config == findArchiveConfig(file, configs)
            sorted == SortByRootLength(configs)
            destinationPath == generateArchivePath(file, config, now)
            linkUpdates == PreparedLinkUpdates(st, file, destinationPath)
        IN  /\ call.op = "none"
            /\ flow.pc = "idle"
            /\ flow.started < MaxOps
            /\ config # NoConfig
            /\ ~isFileInArchive(file, sorted)
            /\ ~settings.showConfirmation
            /\ configs' = sorted
            /\ \E live \in LiveChoices(st, file, config),
                  failing \in FailingChoices(linkUpdates) :
                   Performed(file, config, destinationPath, now, linkUpdates, live, failing,
                             flow.started + 1)
            /\ UNCHANGED <<now, settings>>

\* the confirm button of the dialog: performArchive with what the dialog holds
ConfirmArchive ==
    /\ call.op = "none"
    /\ flow.pc = "confirm"
    /\ \E live \in LiveChoices(Store(files, folders), flow.file, flow.config),
          failing \in FailingChoices(flow.linkUpdates) :
           Performed(flow.file, flow.config, flow.destinationPath, flow.preparedAt,
                     flow.linkUpdates, live, failing, flow.started)
    /\ UNCHANGED <<configs, now, settings>>

\* the cancel button of the dialog
CancelArchive ==
    /\ call.op = "none"
    /\ flow.pc = "confirm"
    /\ flow' = Idle(flow.started)
    /\ call' = [op |-> "cancel", file |-> flow.file]
    /\ UNCHANGED <<configs, now, files, folders, settings, pending, timers>>

\* the Undo button of the notice of a pending operation is clicked; the
\* notice replaces the button by a progress message
PerformUndo ==
    \E operationId \in DOMAIN pending \cap DOMAIN timers.hide :
    \E failing \in SUBSET { pending[operationId].linkUpdates[k].file :
                              k \in 1..Len(pending[operationId].linkUpdates) } :
    \E r \in {performUndo(Store(files, folders), pending, operationId, failing)} :
        /\ call.op = "none"
        /\ files' = r.st.files
        /\ folders' = r.st.folders
        /\ pending' = r.pending
        /\ timers' = ButtonGone(timers, operationId)
        /\ call' = [op |-> "performUndo", operationId |-> operationId,
                    operation |-> pending[operationId],
                    before |-> Store(files, folders), pendingBefore |-> pending,
                    err |-> r.err, renamed |-> r.renamed, reverted |-> r.reverted,
                    success |-> r.success, failed |-> r.failed,
                    notice |-> IF r.err = "" THEN "Archive operation undone successfully"
                               ELSE "Undo failed: " \o r.err]
        \* an open dialog holds file objects too
        /\ flow' = IF flow.pc = "confirm"
                   THEN [flow EXCEPT !.file = PathAfter(@, r.renamed),
                                     !.linkUpdates = FollowRenames(@, r.renamed)]
                   ELSE flow
        /\ UNCHANGED <<configs, now, settings>>

\* time passes: a later month begins
Tick ==
    /\ call.op = "none"
    /\ now = [year |-> 2025, month |-> 1]
    /\ now' = [year |-> 2025, month |-> 12]
    /\ UNCHANGED <<configs, files, folders, settings, flow, pending, timers, call>>

\* the configuration lists of the archive flow: the default, the default
\* by date, one folder only, two scopes with their archives side by side,
\* and an archive folder left empty in the settings tab
ArchiveConfigLists ==
    { <<Config("c1", "", "Archive", "path-mirror")>>,
      <<Config("c1", "", "Archive", "date-based")>>,
      <<Config("c1", "P", "Archive", "path-mirror")>>,
      <<Config("c1", "", "P/Archive", "date-based"), Config("c2", "P", "Old", "path-mirror")>>,
      <<Config("c1", "", "", "path-mirror")>> }

\* a vault with nothing archived yet: two documents named x, and documents
\* that refer to them by name, by path and by inline link
FreshVault ==
    Store([p \in {"P/x.md", "P/Q/doc.md", "n/x.md", "ref.md", "P/r.md"} |->
              CASE p = "ref.md" -> "[[doc]] [[P/x]] [t](P/x.md)"
                [] p = "P/r.md" -> "[[x]] ![e](Q/doc.md)"
                [] OTHER -> ""],
          {"P", "P/Q", "n"})

\* the same vault after earlier archiving: archive folders with content
UsedVault ==
    Store([p \in DOMAIN FreshVault.files \cup {"Archive/old.md", "P/Archive/z.md"} |->
              IF p \in DOMAIN FreshVault.files THEN FreshVault.files[p] ELSE ""],
          FreshVault.folders \cup {"Archive", "Archive/P", "P/Archive"})

ArchiveVaults == {FreshVault, UsedVault}

LinkUpdateModes == {"always", "ask", "never"}

Init ==
    /\ configs \in ArchiveConfigLists
    /\ now \in Clocks
    /\ \E st \in ArchiveVaults : files = st.files /\ folders = st.folders
    /\ settings \in [linkUpdateMode : LinkUpdateModes, showConfirmation : BOOLEAN,
                     showUndoNotice : BOOLEAN, undoTimeoutMs : {5000}]
    /\ FlowInit
    /\ call = [op |-> "none"]

Next ==
    \/ ArchiveFileRefused
    \/ ArchiveFileAsks
    \/ ArchiveFileDirect
    \/ ConfirmArchive
    \/ CancelArchive
    \/ PerformUndo
    \/ Tick
    \/ Return

Spec == Init /\ [][Next]_vars

---------------------------------------------------------------------------
(* The undo window: the archive flow over a small vault in which the       *)
(* destination may be taken, with the timeouts of showUndoNotice and with  *)
(* what the user does in the vault meanwhile.                               *)

\* the time between two looks at the clock
StepMs == 1000

\* one folder with a document, and a document that links to it
UndoVault ==
    Store([p \in {"A/note.md", "ref.md"} |->
              IF p = "ref.md" THEN "[n](A/note.md)" ELSE ""],
          {"A"})

\* what the archive holds already: nothing, the folder, the document, a
\* file named as the folder, a folder named as the document
UndoVaults ==
    { UndoVault,
      Store(UndoVault.files, {"A", "Archive", "Archive/A"}),
      Store([p \in {"A/note.md", "ref.md", "Archive/A/note.md"} |->
                IF p = "Archive/A/note.md" THEN "old" ELSE UndoVault.files[p]],
            {"A", "Archive", "Archive/A"}),
      Store([p \in {"A/note.md", "ref.md", "Archive/A"} |->
                IF p = "Archive/A" THEN "old" ELSE UndoVault.files[p]],
            {"A", "Archive"}),
      Store(UndoVault.files, {"A", "Archive", "Archive/A", "Archive/A/note.md"}) }

InitUndo ==
    /\ configs = <<Config("c1", "", "Archive", "path-mirror")>>
    /\ now = [year |-> 2025, month |-> 1]
    /\ \E st \in UndoVaults : files = st.files /\ folders = st.folders
    /\ settings \in [linkUpdateMode : {"always", "never"}, showConfirmation : BOOLEAN,
                     showUndoNotice : {TRUE}, undoTimeoutMs : {1000, 2000}]
    /\ FlowInit
    /\ call = [op |-> "none"]

\* the timeouts that are due
DueHide == { id \in DOMAIN timers.hide : timers.hide[id] <= timers.ms }
DueCleanup ==
    { id \in DOMAIN timers.cleanup \ timers.expired : timers.cleanup[id] <= timers.ms }

\* time passes while a timeout is set; a timeout that is due runs first
Elapse ==
    /\ call.op = "none"
    /\ DOMAIN timers.hide \cup (DOMAIN timers.cleanup \ timers.expired) # {}
    /\ DueHide = {} /\ DueCleanup = {}
    /\ timers' = [timers EXCEPT !.ms = @ + StepMs]
    /\ UNCHANGED <<configs, now, files, folders, settings, flow, pending, call>>

\* the timeout of UndoNotice: the notice hides, and its button with it
HideNotice ==
    \E operationId \in DueHide :
        /\ call.op = "none"
        /\ timers' = ButtonGone(timers, operationId)
        /\ call' = [op |-> "hide", operationId |-> operationId]
        /\ UNCHANGED <<configs, now, files, folders, settings, flow, pending>>

\* the timeout of showUndoNotice: the operation is deleted from the table
CleanupOperation ==
    \E operationId \in DueCleanup :
        /\ call.op = "none"
        /\ pending' = [id \in DOMAIN pending \ {operationId} |-> pending[id]]
        /\ timers' = [timers EXCEPT !.expired = @ \cup {operationId}]
        /\ call' = [op |-> "cleanup", operationId |-> operationId,
                    before |-> Store(files, folders), pendingBefore |-> pending]
        /\ UNCHANGED <<configs, now, files, folders, settings, flow>>

\* performUndo(operationId) for an operation that had a notice and is no
\* longer in the table
PerformUndoExpired ==
    \E n \in 1..flow.started :
        /\ call.op = "none"
        /\ OperationId(n) \in DOMAIN timers.cleanup
        /\ OperationId(n) \notin DOMAIN pending
        /\ call' = [op |-> "performUndo", operationId |-> OperationId(n),
                    operation |-> NoConfig,
                    before |-> Store(files, folders), pendingBefore |-> pending,
                    err |-> "", renamed |-> <<>>, reverted |-> FALSE,
                    success |-> 0, failed |-> <<>>,
                    notice |-> "Undo operation has expired"]
        /\ UNCHANGED <<configs, now, files, folders, flowVars>>

\* the paths the operations of the table and the open dialog speak of
OriginalPaths == { pending[id].originalPath : id \in DOMAIN pending }
DestinationPaths == { pending[id].destinationPath : id \in DOMAIN pending }
Referencing ==
    UNION { { pending[id].linkUpdates[k].file : k \in 1..Len(pending[id].linkUpdates) } :
              id \in DOMAIN pending }
    \cup (IF flow.pc = "confirm"
          THEN { flow.linkUpdates[k].file : k \in 1..Len(flow.linkUpdates) } ELSE {})

\* the user creates something where an archived item was
ExternalCreate ==
    \E path \in OriginalPaths :
        LET st == Store(files, folders)
        IN  /\ call.op = "none"
            /\ ~Exists(st, path)
            /\ ParentPath(path) = "" \/ IsFolder(st, ParentPath(path))
            /\ IF EndsWith(path, ".md")
               THEN /\ files' = [q \in DOMAIN files \cup {path} |->
                                    IF q = path THEN "new" ELSE files[q]]
                    /\ folders' = folders
               ELSE /\ folders' = folders \cup {path}
                    /\ files' = files
            /\ call' = [op |-> "create", path |-> path]
            /\ UNCHANGED <<configs, now, flowVars>>

\* the user deletes an archived item, or the folder an archived item was in
ExternalDelete ==
    \E path \in DestinationPaths \cup { ParentPath(q) : q \in OriginalPaths } :
        LET st == Store(files, folders)
        IN  /\ call.op = "none"
            /\ Exists(st, path)
            /\ \A q \in Referencing : q # path /\ ~IsUnder(q, path)
            /\ flow.pc = "confirm" => flow.file # path /\ ~IsUnder(flow.file, path)
            /\ files' = Delete(st, path).files
            /\ folders' = Delete(st, path).folders
            /\ call' = [op |-> "delete", path |-> path]
            /\ UNCHANGED <<configs, now, flowVars>>

\* the user edits a document an update was prepared for or applied to
ExternalEdit ==
    \E path \in Referencing :
        LET st == Store(files, folders)
        IN  /\ call.op = "none"
            /\ IsFile(st, path)
            /\ ~EndsWith(files[path], " edited")
            /\ files' = Modify(st, path, files[path] \o " edited").files
            /\ folders' = folders
            /\ call' = [op |-> "edit", path |-> path, before |-> st,
                        pendingBefore |-> pending, timersBefore |-> timers]
            /\ UNCHANGED <<configs, now, flowVars>>

NextUndo ==
    \/ ArchiveFileRefused
    \/ ArchiveFileAsks
    \/ ArchiveFileDirect
    \/ ConfirmArchive
    \/ CancelArchive
    \/ PerformUndo
    \/ PerformUndoExpired
    \/ Elapse
    \/ HideNotice
    \/ CleanupOperation
    \/ ExternalCreate
    \/ ExternalDelete
    \/ ExternalEdit
    \/ Return

SpecUndo == InitUndo /\ [][NextUndo]_vars

---------------------------------------------------------------------------
(* The table of pending operations: the archive flow started while an      *)
(* earlier operation is still in the table.                                 *)

\* what performArchive left when it archived an item of the vault before
EarlierArchive(st, file) ==
    LET destinationPath == generateArchivePath(file, configs[1], now)
    IN  performArchive(st, NoPending, file, configs[1], destinationPath,
                       PreparedLinkUpdates(st, file, destinationPath), now, FALSE, {}, 0)

InitTable ==
    /\ configs = <<Config("c1", "", "Archive", "path-mirror")>>
    /\ now = [year |-> 2025, month |-> 1]
    /\ settings = [linkUpdateMode |-> "always", showConfirmation |-> FALSE,
                   showUndoNotice |-> TRUE, undoTimeoutMs |-> 1000]
    /\ \E file \in Entries(UndoVault) :
       \E r \in {EarlierArchive(UndoVault, file)} :
           /\ r.err = ""
           /\ files = r.st.files
           /\ folders = r.st.folders
           /\ pending = r.pending
    /\ timers = TimersSet(NoTimers, OperationId(0), settings.undoTimeoutMs)
    /\ flow = Idle(0)
    /\ call = [op |-> "none"]

NextTable ==
    \/ ArchiveFileRefused
    \/ ArchiveFileDirect
    \/ PerformUndo
    \/ Elapse
    \/ HideNotice
    \/ CleanupOperation
    \/ ExternalCreate
    \/ Return

SpecTable == InitTable /\ [][NextTable]_vars

---------------------------------------------------------------------------
(* The undo in flight: performUndo(operationId) is an async function that   *)
(* waits for the store at the rename of undoArchive and at the writes of    *)
(* applyLinkUpdates.  Here it runs in these steps, for the operation of an  *)
(* earlier archive, and the timeouts and the user act in between.  The      *)
(* executions of performUndo are kept in flow.undo, each with its position. *)

\* most clicks on Undo buttons in one behaviour
MaxUndos == 2

InitInFlight ==
    /\ configs = <<Config("c1", "", "Archive", "path-mirror")>>
    /\ now = [year |-> 2025, month |-> 1]
    /\ settings = [linkUpdateMode |-> "always", showConfirmation |-> FALSE,
                   showUndoNotice |-> TRUE, undoTimeoutMs |-> 1000]
    /\ \E file \in Entries(UndoVault) :
       \E r \in {EarlierArchive(UndoVault, file)} :
           /\ r.err = ""
           /\ files = r.st.files
           /\ folders = r.st.folders
           /\ pending = r.pending
    /\ timers = TimersSet(NoTimers, OperationId(0), settings.undoTimeoutMs)
    /\ flow = [pc |-> "idle", started |-> 0, undo |-> <<>>]
    /\ call = [op |-> "none"]

\* an execution of performUndo that has ended with a notice
Ended(operationId, err, notice) ==
    [operationId |-> operationId, pc |-> "done", file |-> "", to |-> "",
     occupied |-> FALSE, linkUpdates |-> <<>>, err |-> err, moved |-> FALSE,
     reverted |-> FALSE, notice |-> notice]

\* an execution of performUndo that waits for vault.rename(archivedFile, to)
Renaming(operationId, operation, to, occupied) ==
    [operationId |-> operationId, pc |-> "renaming",
     file |-> operation.destinationPath, to |-> to, occupied |-> occupied,
     linkUpdates |-> operation.linkUpdates, err |-> "", moved |-> FALSE,
     reverted |-> FALSE, notice |-> ""]

\* performUndo(operationId) up to the rename of undoArchive: the record is
\* looked up, the two paths are looked at, the restore path is chosen and
\* the folder of the original path is made: [st, execution]
performUndoBegins(st, pend, operationId) ==
    LET operation == pend[operationId]
        failed(err) == Ended(operationId, err, "Undo failed: " \o err)
        ensured(e) ==
            [st |-> e.st,
             execution |-> IF e.err # "" THEN failed(e.err)
                           ELSE Renaming(operationId, operation, operation.originalPath,
                                         FALSE)]
    IN  IF operationId \notin DOMAIN pend
        THEN [st |-> st, execution |-> Ended(operationId, "", "Undo operation has expired")]
        ELSE IF ~Exists(st, operation.destinationPath)
        THEN [st |-> st,
              execution |-> failed("Archived file no longer exists and cannot be restored")]
        ELSE IF Exists(st, operation.originalPath)
        THEN [st |-> st,
              execution |-> Renaming(operationId, operation,
                                     generateUniquePath(st, operation.originalPath), TRUE)]
        ELSE TheOne({ ensured(e) : e \in {ensureDirectoryExists(st, operation.originalPath)} })

\* UndoNotice.handleUndo: the Undo button of a notice is clicked; the
\* callback starts performUndo, and the notice replaces the button by a
\* progress message
HandleUndo ==
    \E operationId \in DOMAIN timers.hide :
    \E r \in {performUndoBegins(Store(files, folders), pending, operationId)} :
        /\ call.op = "none"
        /\ Len(flow.undo) < MaxUndos
        /\ files' = r.st.files
        /\ folders' = r.st.folders
        /\ flow' = [flow EXCEPT !.undo = Append(@, r.execution)]
        /\ timers' = ButtonGone(timers, operationId)
        /\ call' = [op |-> "handleUndo", operationId |-> operationId,
                    before |-> Store(files, folders), pendingBefore |-> pending]
        /\ UNCHANGED <<configs, now, settings, pending>>

\* the file objects the executions hold follow a rename
ExecutionsAfter(undo, renamed) ==
    [k \in 1..Len(undo) |->
        [undo[k] EXCEPT !.file = PathAfter(@, renamed),
                        !.linkUpdates = FollowRenames(@, renamed)]]

\* the table without the record of an operation
Deleted(pend, operationId) == [id \in DOMAIN pend \ {operationId} |-> pend[id]]

\* the rename of undoArchive has been carried out or refused by the store;
\* undoArchive returns or throws, and performUndo goes on to the link
\* updates, or deletes the record, or reports the error
UndoArchiveRenames ==
    \E k \in 1..Len(flow.undo) :
        LET e == flow.undo[k]
            st == Store(files, folders)
            renamed == <<<<e.file, e.to>>>>
            occupiedErr == "Original location is occupied. File restored to: " \o e.to
            renameErr == "rename failed: " \o e.file
            ends == e.occupied \/ Len(e.linkUpdates) = 0
        IN  /\ call.op = "none"
            /\ e.pc = "renaming"
            /\ IF CanRename(st, e.file, e.to)
               THEN /\ files' = Rename(st, e.file, e.to).files
                    /\ folders' = Rename(st, e.file, e.to).folders
                    /\ pending' = IF ends /\ ~e.occupied
                                  THEN Deleted(PendingAfter(pending, renamed), e.operationId)
                                  ELSE PendingAfter(pending, renamed)
                    /\ flow' = [flow EXCEPT !.undo =
                                   [ExecutionsAfter(@, renamed) EXCEPT
                                       ![k].moved = TRUE,
                                       ![k].pc = IF ends THEN "done" ELSE "reverting",
                                       ![k].err = IF e.occupied THEN occupiedErr ELSE "",
                                       ![k].notice =
                                           IF e.occupied THEN "Undo failed: " \o occupiedErr
                                           ELSE IF ends
                                           THEN "Archive operation undone successfully"
                                           ELSE ""]]
               ELSE /\ flow' = [flow EXCEPT !.undo[k].pc = "done",
                                            !.undo[k].err = renameErr,
                                            !.undo[k].notice = "Undo failed: " \o renameErr]
                    /\ UNCHANGED <<files, folders, pending>>
            /\ call' = [op |-> "undoArchive", execution |-> k,
                        before |-> st, pendingBefore |-> pending]
            /\ UNCHANGED <<configs, now, settings, timers>>

\* the writes of applyLinkUpdates(reverseLinkUpdates) have been carried out
\* or refused by the store; performUndo deletes the record and reports
UndoRevertsLinks ==
    \E k \in 1..Len(flow.undo) :
    \E failing \in SUBSET { flow.undo[k].linkUpdates[i].file :
                              i \in 1..Len(flow.undo[k].linkUpdates) } :
    \E r \in {applyLinkUpdates([st |-> Store(files, folders), success |-> 0,
                                failed |-> <<>>],
                               ReverseLinkUpdates(flow.undo[k].linkUpdates), <<>>,
                               failing)} :
        /\ call.op = "none"
        /\ flow.undo[k].pc = "reverting"
        /\ files' = r.st.files
        /\ folders' = r.st.folders
        /\ pending' = Deleted(pending, flow.undo[k].operationId)
        /\ flow' = [flow EXCEPT !.undo[k].pc = "done",
                                !.undo[k].reverted = TRUE,
                                !.undo[k].notice = "Archive operation undone successfully"]
        /\ call' = [op |-> "applyLinkUpdates", execution |-> k,
                    before |-> Store(files, folders), pendingBefore |-> pending,
                    success |-> r.success, failed |-> r.failed]
        /\ UNCHANGED <<configs, now, settings, timers>>

NextInFlight ==
    \/ HandleUndo
    \/ UndoArchiveRenames
    \/ UndoRevertsLinks
    \/ Elapse
    \/ HideNotice
    \/ CleanupOperation
    \/ ExternalCreate
    \/ ExternalDelete
    \/ ExternalEdit
    \/ Return

SpecInFlight == InitInFlight /\ [][NextInFlight]_vars

---------------------------------------------------------------------------
(* Two operations and one referencing document: the archive flow started    *)
(* while an earlier operation, which rewrote the same document, is still in *)
(* the table.                                                                *)

\* two documents and a document that links to both
SharedVault ==
    Store([p \in {"a.md", "b.md", "ref.md"} |->
              IF p = "ref.md" THEN "[a](a.md) [b](b.md)" ELSE ""],
          {})

InitShared ==
    /\ configs = <<Config("c1", "", "Archive", "path-mirror")>>
    /\ now = [year |-> 2025, month |-> 1]
    /\ settings \in [linkUpdateMode : {"always"}, showConfirmation : {FALSE},
                     showUndoNotice : {TRUE}, undoTimeoutMs : {1000, 2000}]
    /\ \E file \in Entries(SharedVault) :
       \E r \in {EarlierArchive(SharedVault, file)} :
           /\ r.err = ""
           /\ files = r.st.files
           /\ folders = r.st.folders
           /\ pending = r.pending
    /\ timers = TimersSet(NoTimers, OperationId(0), settings.undoTimeoutMs)
    /\ flow = Idle(0)
    /\ call = [op |-> "none"]

SpecShared == InitShared /\ [][NextTable]_vars

---------------------------------------------------------------------------
(* The table of pending operations with the event loop at work: a handler   *)
(* that was called returns, and between handlers time passes and a timeout  *)
(* that is due is run, however often the user starts something else.        *)

\* the earlier operation archived the document of the folder
InitExpiry ==
    /\ InitTable
    /\ pending[OperationId(0)].originalPath = "A/note.md"

NextExpiry ==
    \/ ArchiveFileDirect
    \/ PerformUndo
    \/ Elapse
    \/ HideNotice
    \/ CleanupOperation
    \/ ExternalCreate
    \/ Return

SpecExpiry ==
    /\ InitExpiry
    /\ [][NextExpiry]_vars
    /\ WF_vars(Return)
    /\ SF_vars(Elapse \/ HideNotice \/ CleanupOperation)

---------------------------------------------------------------------------
(* Notions the properties below are stated in (paths compared in normalised *)
(* form, as the data model prescribes).                                     *)

\* the non-empty segments of a path
Segments(path) == SelectSeq(Split(path, "/"), LAMBDA seg : seg # "")

IsPrefixSeq(a, b) == Len(a) <= Len(b) /\ SubSeq(b, 1, Len(a)) = a

\* path is the folder `root` or lies under it; everything lies under the vault root "/"
AtOrUnder(path, root) == IsPrefixSeq(Segments(root), Segments(path))

\* the scope of a configuration contains the path
InScope(path, rootPath) ==
    \/ rootPath = ""
    \/ normalizePath(path) = normalizePath(rootPath)
    \/ StartsWith(normalizePath(path), normalizePath(rootPath) \o "/")

\* a joined with b as a path
JoinPath(a, b) == normalizePath(a \o "/" \o b)

\* YYYY-MM for the clock readings of the model
YearMonthOf(clock) ==
    CASE clock = [year |-> 2025, month |-> 1]  -> "2025-01"
      [] clock = [year |-> 2025, month |-> 12] -> "2025-12"

---------------------------------------------------------------------------
(* Properties of the path resolver (C1 under SpecResolver, the others       *)
(* under SpecDestination)                                                   *)

\* C1: findArchiveConfig returns, among the configurations whose scope
\* contains the path, one with the longest rootPath string, the first of the
\* list among equally long ones, and null when no scope contains the path;
\* with rootPaths "", "P", "P/Q" the path "P/Q/doc.md" selects "P/Q".
C1_LongestRootWins ==
    /\ call.op = "findArchiveConfig" =>
         LET cs == call.configsBefore
             matching == { i \in 1..Len(cs) : InScope(call.filePath, cs[i].rootPath) }
         IN  IF matching = {} THEN call.ret = NoConfig
             ELSE \E i \in matching :
                    /\ call.ret = cs[i]
                    /\ \A j \in matching :
                         /\ Len(cs[j].rootPath) <= Len(cs[i].rootPath)
                         /\ Len(cs[j].rootPath) = Len(cs[i].rootPath) => i <= j
    /\ LET c(id, root) == [id |-> id, rootPath |-> root, archivePath |-> "Archive",
                           archiveMode |-> "path-mirror"]
       IN  findArchiveConfig("A/B/doc.md", <<c("c1", ""), c("c2", "A"), c("c3", "A/B")>>)
             = c("c3", "A/B")

\* C1 witness: two scopes contain the path and the longer one, second in the list, was returned
C1_Witness ==
    /\ call.op = "findArchiveConfig"
    /\ call.filePath = "P/Q/doc.md"
    /\ Len(call.configsBefore) = 2
    /\ call.configsBefore[1].rootPath = "P"
    /\ call.configsBefore[2].rootPath = "P/Q"
    /\ call.ret = call.configsBefore[2]

\* C2 as stated: for every path inside the configuration's scope the
\* destination differs from the path (stated here for the configurations
\* whose archivePath is not empty, which is enough to refute it).
C2_NeverReturnsThePath ==
    (/\ call.op = "generateArchivePath"
     /\ call.config.archivePath # ""
     /\ InScope(call.filePath, call.config.rootPath))
        => call.ret # call.filePath

\* C2 amended: for every path inside the configuration's scope that is not
\* already at or under that configuration's archive root, the destination
\* differs from the path (and lies at or under the archive root).
C2_NeverReturnsAnUnarchivedPath ==
    (/\ call.op = "generateArchivePath"
     /\ InScope(call.filePath, call.config.rootPath)
     /\ ~AtOrUnder(call.filePath, call.archiveBasePath))
        => /\ call.ret # call.filePath
           /\ AtOrUnder(call.ret, call.archiveBasePath)

\* C2 witness: a path in scope and outside the archive got a destination
C2_Witness ==
    /\ call.op = "generateArchivePath"
    /\ call.filePath = "P/x.md"
    /\ call.config.rootPath = "P"
    /\ call.config.archivePath = "Archive"
    /\ call.config.archiveMode = "path-mirror"
    /\ call.ret = "P/Archive/x.md"

\* C5: in path-mirror mode the destination is the archive root joined with
\* the path after stripping the rootPath prefix; for the path that is the
\* rootPath itself, the archive root joined with the last segment of rootPath.
C5_PathMirror ==
    (/\ call.op = "generateArchivePath"
     /\ call.config.archiveMode = "path-mirror"
     /\ InScope(call.filePath, call.config.rootPath))
        => LET root == Segments(call.config.rootPath)
               path == Segments(call.filePath)
               below == IF path = root
                        THEN <<Last(root)>>
                        ELSE SubSeq(path, Len(root) + 1, Len(path))
           IN  call.ret = JoinPath(call.archiveBasePath, Join(below, "/"))

\* C5 witness: a document two folders below rootPath keeps both folders
C5_Witness ==
    /\ call.op = "generateArchivePath"
    /\ call.config.archiveMode = "path-mirror"
    /\ call.config.rootPath = "P"
    /\ call.config.archivePath = "Archive"
    /\ call.filePath = "P/Q/doc.md"
    /\ call.ret = "P/Archive/Q/doc.md"

\* C6: in date-based mode the destination is archive root / YYYY-MM / final
\* segment of the path, however deeply the item was nested.
C6_DateBased ==
    (call.op = "generateArchivePath" /\ call.config.archiveMode = "date-based")
        => call.ret = JoinPath(call.archiveBasePath,
                               YearMonthOf(call.clock) \o "/" \o Last(Segments(call.filePath)))

\* C6 witness: a nested document archived in January lands directly in 2025-01
C6_Witness ==
    /\ call.op = "generateArchivePath"
    /\ call.config.archiveMode = "date-based"
    /\ call.config.rootPath = ""
    /\ call.config.archivePath = "Archive"
    /\ call.clock.month = 1
    /\ call.filePath = "P/Q/doc.md"
    /\ call.ret = "Archive/2025-01/doc.md"

\* C7: the archive root is rootPath joined with archivePath, except when
\* archivePath already starts with rootPath: then it is archivePath itself,
\* not prefixed with rootPath a second time.
C7_ArchiveRoot ==
    call.op = "generateArchivePath" =>
        LET c == call.config
        IN  IF StartsWith(c.archivePath, c.rootPath)
            THEN call.archiveBasePath = normalizePath(c.archivePath)
            ELSE call.archiveBasePath = JoinPath(c.rootPath, c.archivePath)

\* C7 witness: archivePath "P/Archive" under rootPath "P" stays "P/Archive"
C7_Witness ==
    /\ call.op = "generateArchivePath"
    /\ call.config.rootPath = "P"
    /\ call.config.archivePath = "P/Archive"
    /\ call.archiveBasePath = "P/Archive"

---------------------------------------------------------------------------
(* Properties of the reference rewriter (under SpecRewrite)                 *)

\* the reference that starts at position i of a text, a wikilink before an
\* inline link
ReferenceAt(s, i) ==
    LET w == WikilinkAt(s, i)
        m == MarkdownLinkAt(s, i)
    IN  IF w.matched THEN [matched |-> TRUE, kind |-> "wikilink", last |-> w.last,
                           target |-> w.linkPath]
        ELSE IF m.matched THEN [matched |-> TRUE, kind |-> "inline", last |-> m.last,
                                target |-> m.linkPath]
        ELSE [matched |-> FALSE]

\* a text as the list of its spans, each a reference or one character outside references
RECURSIVE Spans(_, _)
Spans(s, i) ==
    IF i > Len(s) THEN <<>>
    ELSE LET r == ReferenceAt(s, i)
         IN  IF r.matched
             THEN <<[isRef |-> TRUE, kind |-> r.kind, text |-> SubSeq(s, i, r.last),
                     target |-> r.target, start |-> i]>> \o Spans(s, r.last + 1)
             ELSE <<[isRef |-> FALSE, kind |-> "text", text |-> Ch(s, i), target |-> "",
                     start |-> i]>>
                  \o Spans(s, i + 1)

\* the document a reference written in document `from` refers to
ResolvesTo(st, span, from) == getFirstLinkpathDest(st, Trim(span.target), from)

\* out is the spans with nothing changed but references that resolve to oldPath
RECURSIVE OnlyReferencesToOldChanged(_, _, _, _, _)
OnlyReferencesToOldChanged(st, spans, out, oldPath, from) ==
    IF Len(spans) = 0 THEN out = ""
    ELSE IF spans[1].isRef /\ ResolvesTo(st, spans[1], from) = oldPath
         THEN \E k \in 0..Len(out) :
                  OnlyReferencesToOldChanged(st, Tail(spans), Substring(out, k), oldPath, from)
    ELSE /\ StartsWith(out, spans[1].text)
         /\ OnlyReferencesToOldChanged(st, Tail(spans), Substring(out, Len(spans[1].text)),
                                       oldPath, from)

\* C9: the text updateLinksInContent returns differs from the text it was
\* given only within references that resolve to oldPath; references that
\* resolve elsewhere or nowhere, and every character outside references,
\* are the same bytes in the same order.
C9_OnlyReferencesToOldPathChange ==
    call.op = "updateLinksInContent" =>
        OnlyReferencesToOldChanged(Store(files, folders), Spans(call.content, 1), call.ret,
                                   call.oldPath, call.currentFilePath)

\* a text with a reference to the moved document, a reference to another
\* document and a dangling one has been rewritten
C9_Witness ==
    /\ call.op = "updateLinksInContent"
    /\ call.ret # call.content
    /\ LET spans == Spans(call.content, 1)
           st == Store(files, folders)
       IN  /\ \E i \in 1..Len(spans) :
                 spans[i].isRef /\ ResolvesTo(st, spans[i], call.currentFilePath) = call.oldPath
           /\ \E i \in 1..Len(spans) :
                 /\ spans[i].isRef
                 /\ ResolvesTo(st, spans[i], call.currentFilePath) \notin {call.oldPath, NoFile}
           /\ \E i \in 1..Len(spans) :
                 spans[i].isRef /\ ResolvesTo(st, spans[i], call.currentFilePath) = NoFile

\* the wikilinks of a text, in order
Wikilinks(s) == SelectSeq(Spans(s, 1), LAMBDA span : span.kind = "wikilink")

\* the display name of a path: final segment, extension stripped
DisplayName(path) == StripExtension(Last(Split(path, "/")))

\* the link path the naming policy prescribes for a wikilink written in `from`
PolicyLinkPath(st, oldPath, newPath, from) ==
    IF \E f \in MarkdownFiles(st) \ {oldPath} : BasenameOf(f) = DisplayName(newPath)
    THEN StripExtension(getRelativePath(from, newPath))
    ELSE DisplayName(newPath)

PartsOf(span) == WikilinkAt(span.text, 1)

\* the wikilinks of the call's text that resolve to oldPath: their positions
\* in the list of wikilinks
RewrittenWikilinks ==
    { i \in 1..Len(Wikilinks(call.content)) :
        ResolvesTo(Store(files, folders), Wikilinks(call.content)[i], call.currentFilePath)
            = call.oldPath }

IsEmbedded(s, span) == Ch(s, span.start - 1) = "!"

\* C12: a rewritten wikilink carries the fragment (# or ^ and what follows,
\* up to the alias) of the original, none when the original had none, and is
\* preceded by ! exactly when the original was.
C12_FragmentAndEmbedKept ==
    call.op = "updateLinksInContent" =>
        LET before == Wikilinks(call.content)
            after == Wikilinks(call.ret)
        IN  /\ Len(after) = Len(before)
            /\ \A i \in RewrittenWikilinks :
                   /\ PartsOf(after[i]).anchor = PartsOf(before[i]).anchor
                   /\ IsEmbedded(call.ret, after[i]) <=> IsEmbedded(call.content, before[i])

\* an embedded reference with a heading, a reference with a block id and a
\* plain one have been rewritten in one text
C12_Witness ==
    /\ call.op = "updateLinksInContent"
    /\ call.ret # call.content
    /\ \E i \in RewrittenWikilinks :
           /\ PartsOf(Wikilinks(call.ret)[i]).anchor = "#h"
           /\ IsEmbedded(call.ret, Wikilinks(call.ret)[i])
    /\ \E i \in RewrittenWikilinks :
           /\ PartsOf(Wikilinks(call.ret)[i]).anchor = "^b"
           /\ ~IsEmbedded(call.ret, Wikilinks(call.ret)[i])
    /\ \E i \in RewrittenWikilinks : PartsOf(Wikilinks(call.ret)[i]).anchor = ""

\* the inline links of a text, in order
InlineLinks(s) == SelectSeq(Spans(s, 1), LAMBDA span : span.kind = "inline")

\* an inline link span taken apart: embed marker, display text, target
InlinePartsOf(span) == MarkdownLinkAt(span.text, 1)

\* the inline links of the call's text that resolve to oldPath
RewrittenInlineLinks ==
    { i \in 1..Len(InlineLinks(call.content)) :
        ResolvesTo(Store(files, folders), InlineLinks(call.content)[i], call.currentFilePath)
            = call.oldPath }

\* followed from the folder of the document from, the relative path names
\* the vault path to
LeadsTo(from, relative, to) == ResolveFrom(ParentPath(from), relative) = to

\* C13: an inline link or embed that resolved to oldPath has, after the
\* rewrite, the path from the referencing document to newPath as its target,
\* extension included, and the display text and embed marker it had.
C13_InlineLinkRewrite ==
    call.op = "updateLinksInContent" =>
        LET before == InlineLinks(call.content)
            after == InlineLinks(call.ret)
        IN  /\ Len(after) = Len(before)
            /\ \A i \in RewrittenInlineLinks :
                   LET was == InlinePartsOf(before[i])
                       is == InlinePartsOf(after[i])
                   IN  /\ LeadsTo(call.currentFilePath, is.linkPath, call.newPath)
                       /\ Last(Split(is.linkPath, "/")) = NameOf(call.newPath)
                       /\ is.text = was.text
                       /\ is.isEmbed = was.isEmbed

\* an inline embed and an inline link to the moved document, of the two
\* named Plan, have been rewritten from a document in a folder
C13_Witness ==
    /\ call.op = "updateLinksInContent"
    /\ call.currentFilePath = "Projects/ref.md"
    /\ \E i \in RewrittenInlineLinks, j \in RewrittenInlineLinks :
           /\ InlinePartsOf(InlineLinks(call.ret)[i]).isEmbed = "!"
           /\ InlinePartsOf(InlineLinks(call.ret)[j]).isEmbed = ""
           /\ InlinePartsOf(InlineLinks(call.ret)[j]).text = "t t"
           /\ InlinePartsOf(InlineLinks(call.ret)[j]).linkPath = "../Archive/Projects/Plan.md"

\* C14: a text rewritten for the move from old to new and then, over the
\* store after the move, for the move from new to old is the original text.
C14_RoundTrip ==
    call.op = "roundTrip" => call.back = call.content

\* C15: prepareLinkUpdates called twice over unchanged documents returns the
\* same list, and called after the move and after its updates were written
\* returns no update.
C15_PrepareIdempotent ==
    call.op = "prepareLinkUpdates" =>
        /\ call.second = call.first
        /\ (Len(call.applied.failed) = 0 => call.third = <<>>)

\* two documents were rewritten for the move, both writes succeeded, and the
\* call after that gave no update
C15_Witness ==
    /\ call.op = "prepareLinkUpdates"
    /\ Len(call.first) = 2
    /\ call.applied.success = 2
    /\ call.applied.failed = <<>>
    /\ \A i \in 1..2 : call.applied.st.files[call.first[i].file] = call.first[i].newContent
    /\ call.third = <<>>

---------------------------------------------------------------------------
(* Properties of the archive flow (under Spec)                              *)

\* the folders a path lies in, outermost first
Ancestors(path) ==
    LET parts == Split(ParentPath(path), "/")
    IN  IF ParentPath(path) = "" THEN <<>>
        ELSE [i \in 1..Len(parts) |-> Join(SubSeq(parts, 1, i), "/")]

Range(list) == { list[i] : i \in 1..Len(list) }

\* the entry at or under the item `from`, or its image under `to`
AtOrBelow(e, item) == e = item \/ IsUnder(e, item)

\* the store kept entry e, now at path: a folder is a folder, a file is a
\* file with the text it had or the text a prepared link update gives it
SameEntry(before, e, after, path) ==
    \/ IsFolder(before, e) /\ IsFolder(after, path)
    \/ /\ IsFile(before, e) /\ IsFile(after, path)
       /\ \/ after.files[path] = before.files[e]
          \/ \E i \in 1..Len(call.linkUpdates) :
                 /\ call.linkUpdates[i].file = e
                 /\ call.linkUpdates[i].newContent = after.files[path]

\* C3: after performArchive succeeded for an item whose destination (as
\* generateArchivePath computes it when the move is made) did not exist, the
\* item and everything under it is at the destination, nothing is left at
\* the original path, every ancestor folder of the destination exists, the
\* folders created are exactly the missing ancestors, each created after its
\* parent, and every other entry of the store is where it was.
C3_ArchiveMovesTheItemOnly ==
    LET before == call.before
        after == Store(files, folders)
        destination == generateArchivePath(call.file, call.config, call.clock)
        created == call.created
        ancestors == Ancestors(destination)
    IN  ( /\ call.op = "performArchive"
          /\ call.err = ""
          /\ ~Exists(before, destination) )
        => /\ \A e \in Entries(before) :
                  AtOrBelow(e, call.file) =>
                      /\ SameEntry(before, e, after, Moved(e, call.file, destination))
                      /\ ~Exists(after, e)
           /\ \A i \in 1..Len(ancestors) : IsFolder(after, ancestors[i])
           /\ Range(created) = { a \in Range(ancestors) : ~Exists(before, a) }
           /\ \A i \in 1..Len(created) :
                  \/ ParentPath(created[i]) = ""
                  \/ IsFolder(before, ParentPath(created[i]))
                  \/ \E j \in 1..(i - 1) : created[j] = ParentPath(created[i])
           /\ \A e \in Entries(before) :
                  ~AtOrBelow(e, call.file) => SameEntry(before, e, after, e)
           /\ Entries(after) =
                  { e \in Entries(before) : ~AtOrBelow(e, call.file) }
                      \cup { Moved(e, call.file, destination) :
                               e \in { x \in Entries(before) : AtOrBelow(x, call.file) } }
                      \cup Range(created)

\* a folder with content has been archived to a destination two missing
\* folders deep
C3_Witness ==
    /\ call.op = "performArchive"
    /\ call.err = ""
    /\ ~Exists(call.before, generateArchivePath(call.file, call.config, call.clock))
    /\ IsFolder(call.before, call.file)
    /\ \E e \in Entries(call.before) : IsUnder(e, call.file)
    /\ Len(call.created) >= 2

\* the computed archive root of a configuration
ArchiveRootOf(config) == getArchiveFullPath(config)

\* the request for the item has to be refused
MustBeRefused(item, cs) ==
    \/ \A i \in 1..Len(cs) : ~InScope(item, cs[i].rootPath)
    \/ \E i \in 1..Len(cs) : AtOrUnder(item, ArchiveRootOf(cs[i]))

\* C4: a request for an item that no scope contains, or that is at or under
\* the archive root of any configuration of the list, ends refused: the
\* dialog is not opened, nothing is moved or created, no text is modified
\* and the pending table is unchanged.
C4_RefusedWithoutEffect ==
    /\ ( call.op = "archiveFile" /\ MustBeRefused(call.file, configs) )
       => /\ call.outcome = "refused"
          /\ Store(files, folders) = call.before
          /\ pending = call.pendingBefore
          /\ flow.pc = "idle"
    /\ ( call.op = "performArchive" /\ MustBeRefused(call.file, configs) )
       => /\ Store(files, folders) = call.before
          /\ pending = call.pendingBefore

\* the references of a text, in order
References(s) == SelectSeq(Spans(s, 1), LAMBDA span : span.isRef)

\* C8: after one markdown document was archived with link update mode
\* always and every prepared rewrite was written, every reference in another
\* document that resolved to the document at its old path resolves to the
\* document at the path it was moved to.
C8_ReferencesFollowTheDocument ==
    LET before == call.before
        after == Store(files, folders)
    IN  ( /\ call.op = "performArchive"
          /\ call.err = ""
          /\ call.isFile /\ IsMarkdown(call.file)
          /\ settings.linkUpdateMode = "always"
          /\ Len(call.failed) = 0 )
        => \A d \in MarkdownFiles(before) \ {call.file} :
               LET was == References(before.files[d])
                   is == References(after.files[d])
               IN  /\ Len(is) = Len(was)
                   /\ \A i \in 1..Len(was) :
                          ResolvesTo(before, was[i], d) = call.file
                              => ResolvesTo(after, is[i], d) = call.movedTo

\* C16: after a folder was archived and every prepared update was written,
\* each document the updates name holds one text in which every reference
\* any of its updates rewrote is rewritten: no rewrite is lost to a later
\* update computed from the same text.
C16_AllFolderRewritesLand ==
    ( /\ call.op = "performArchive"
      /\ call.err = ""
      /\ ~call.isFile
      /\ call.applied
      /\ Len(call.failed) = 0 )
    => \A k \in 1..Len(call.linkUpdates) :
           LET update == call.linkUpdates[k]
               was == Spans(update.oldContent, 1)
               to == Spans(update.newContent, 1)
               is == Spans(files[PathAfter(update.file, call.renamed)], 1)
           IN  /\ Len(is) = Len(was)
               /\ \A i \in 1..Len(was) :
                      to[i].text # was[i].text => is[i].text = to[i].text

\* the path each update's document has when the updates are written
UpdatePaths == [k \in 1..Len(call.linkUpdates) |->
                   PathAfter(call.linkUpdates[k].file, call.renamed)]

\* the last update of the list for the document of the k-th
LastUpdateFor(k) ==
    LET same == { j \in 1..Len(call.linkUpdates) :
                    call.linkUpdates[j].file = call.linkUpdates[k].file }
    IN  call.linkUpdates[CHOOSE j \in same : \A h \in same : h <= j]

\* C17: applyLinkUpdates goes through every update even when writes fail:
\* the successes and the failures add up to the number of updates, the
\* failures are the paths of the documents that were not written, in the
\* order of the updates, a document that was written holds the new text of
\* its update, and a document whose write failed holds the text it had
\* before the archive.
C17_ApplyContinuesOnFailure ==
    ( call.op = "performArchive" /\ call.err = "" /\ call.applied )
    => /\ call.success + Len(call.failed) = Len(call.linkUpdates)
       /\ call.failed = SelectSeq(UpdatePaths, LAMBDA path : path \in Range(call.failed))
       /\ \A k \in 1..Len(call.linkUpdates) :
              IF UpdatePaths[k] \in Range(call.failed)
              THEN IsFile(Store(files, folders), UpdatePaths[k])
                       => files[UpdatePaths[k]] = call.before.files[call.linkUpdates[k].file]
              ELSE files[UpdatePaths[k]] = LastUpdateFor(k).newContent

\* a write failed, a later write to another document succeeded, and both
\* documents are in the store
C17_Witness ==
    /\ call.op = "performArchive" /\ call.err = "" /\ call.applied
    /\ \E k \in 1..Len(call.linkUpdates), j \in 1..Len(call.linkUpdates) :
           /\ k < j
           /\ UpdatePaths[k] \in Range(call.failed)
           /\ UpdatePaths[j] \notin Range(call.failed)
           /\ files[UpdatePaths[k]] = call.before.files[call.linkUpdates[k].file]
           /\ files[UpdatePaths[k]] # call.linkUpdates[k].newContent
           /\ files[UpdatePaths[j]] = call.linkUpdates[j].newContent

\* the path an update's document has after the undo
PathAfterUndo(update) == PathAfter(update.file, call.renamed)

\* C18: an undo that ends with the notice of success and whose writes all
\* succeed leaves every document that held the rewritten text of one of the
\* operation's updates with the text that update recorded as old; and for an
\* archive with no operation before it that text is the text the document
\* had when the archive began.
C18_UndoRestoresRewrittenDocuments ==
    /\ ( /\ call.op = "performUndo"
         /\ call.err = ""
         /\ Len(call.failed) = 0 )
       => \A k \in 1..Len(call.operation.linkUpdates) :
              LET update == call.operation.linkUpdates[k]
              IN  ( /\ IsFile(call.before, update.file)
                    /\ call.before.files[update.file] = update.newContent )
                  => /\ IsFile(Store(files, folders), PathAfterUndo(update))
                     /\ files[PathAfterUndo(update)] = update.oldContent
    /\ ( call.op = "performArchive" /\ flow.started = 1 )
       => \A k \in 1..Len(call.linkUpdates) :
              call.before.files[call.linkUpdates[k].file] = call.linkUpdates[k].oldContent

\* an undo has succeeded for an operation with updates, and a document that
\* held rewritten text before the undo holds its old text after it
C18_Witness ==
    /\ call.op = "performUndo"
    /\ call.err = ""
    /\ call.failed = <<>>
    /\ \E k \in 1..Len(call.operation.linkUpdates) :
           LET update == call.operation.linkUpdates[k]
           IN  /\ call.before.files[update.file] = update.newContent
               /\ update.newContent # update.oldContent
               /\ files[PathAfterUndo(update)] = update.oldContent

---------------------------------------------------------------------------
(* Properties of the archive executor (under SpecExecutor) *)

\* own is a place in the destination that was free for an incoming entry:
\* nothing was at it, and every folder on the way down was either missing or
\* a folder on both sides
WasFree(before, own, src, dst) ==
    /\ ~Exists(before, own)
    /\ \A k \in 1..Len(Ancestors(own)) :
           LET q == Ancestors(own)[k]
           IN  (IsUnder(q, dst) /\ Exists(before, q))
                   => IsFolder(before, q) /\ IsFolder(before, Moved(q, dst, src))

\* C19: when a folder is archived onto a destination that is a folder,
\* every file that was under the source is a file under the destination, at
\* its own relative path when that place was free and at a path nothing had
\* otherwise; every entry the destination had is still there as it was; and
\* the source folder is gone.
C19_MergeKeepsEverything ==
    ( /\ call.op = "archiveFile"
      /\ IsFolder(call.before, call.file)
      /\ IsFolder(call.before, call.destinationPath) )
    => LET before == call.before
           after == Store(files, folders)
           src == call.file
           dst == call.destinationPath
       IN  /\ \A f \in DOMAIN before.files :
                  IsUnder(f, src) =>
                      \E p \in DOMAIN after.files :
                          /\ IsUnder(p, dst)
                          /\ after.files[p] = before.files[f]
                          /\ IF WasFree(before, Moved(f, src, dst), src, dst)
                             THEN p = Moved(f, src, dst)
                             ELSE ~Exists(before, p)
           /\ \A e \in Entries(before) :
                  AtOrBelow(e, dst) =>
                      \/ IsFolder(before, e) /\ IsFolder(after, e)
                      \/ /\ IsFile(before, e) /\ IsFile(after, e)
                         /\ after.files[e] = before.files[e]
           /\ ~Exists(after, src)

\* the path with " n" put after the name of its final segment, in front of
\* the extension when the final segment has one
Disambiguated(path, n) ==
    LET name == NameOf(path)
        k == LastIndexOf(name, ".")
        parent == IF ParentPath(path) = "" THEN "" ELSE ParentPath(path) \o "/"
    IN  IF k = 0 THEN parent \o name \o " " \o NumToString(n)
        ELSE parent \o SubSeq(name, 1, k - 1) \o " " \o NumToString(n)
                 \o Substring(name, k - 1)

\* the numbers tried for a path of the stores above
Numbers == 1..3

\* C20: the path generateUniquePath returns for a taken path is that path
\* with "name N" or "name N.ext" as its final segment, in the same folder,
\* is not taken, and N is the smallest number from 1 for which it is not.
C20_UniquePathShape ==
    call.op = "generateUniquePath" =>
        \E n \in Numbers :
            /\ call.ret = Disambiguated(call.basePath, n)
            /\ ParentPath(call.ret) = ParentPath(call.basePath)
            /\ ~Exists(Store(files, folders), call.ret)
            /\ \A m \in 1..(n - 1) :
                   Exists(Store(files, folders), Disambiguated(call.basePath, m))

\* C33: for an item that passed the scope check and the archived check, the
\* destination the item is to be moved to does not lie inside the item: the
\* store is never asked to move a folder to a path under that folder
C33_DestinationOutsideTheItem ==
    call.op = "performArchive" => ~IsUnder(call.movedTo, call.file)

\* a folder that holds the archive root was to be moved into the archive
C33_MovedIntoItself ==
    /\ call.op = "performArchive"
    /\ IsFolder(call.before, call.file)
    /\ IsUnder(call.movedTo, call.file)
    /\ call.err # ""

\* what a store held is in the current store again, same kind and same text
Restored(st) ==
    /\ st.folders \subseteq folders
    /\ \A f \in DOMAIN st.files : f \in DOMAIN files /\ files[f] = st.files[f]

\* an archive that did not merge, followed by its undo, gives back the store
\* from before, with the archive folders the archive created added to it
RestoredWithoutMerge ==
    (call.op = "archiveThenUndo" /\ call.err = "" /\ ~call.merged) =>
        /\ Restored(call.before)
        /\ DOMAIN files = DOMAIN call.before.files
        /\ \A d \in folders \ call.before.folders : IsUnder(d, "Archive")

\* C34: an archive followed by its undo, the undo without error and nothing
\* else done to the store in between, restores the files and folders from
\* before the archive, at the original location and in the archive, also
\* when the archive merged a folder into an existing one: what was in the
\* archive is there again, and no file is anywhere else than before
C34_UndoRestoresTheTree ==
    (call.op = "archiveThenUndo" /\ call.err = "") =>
        /\ Restored(call.before)
        /\ DOMAIN files = DOMAIN call.before.files

\* a folder was merged into an archive folder that held a document of the
\* same name, and the undo took that document out of the archive
C34_MergedThenUndone ==
    /\ call.op = "archiveThenUndo" /\ call.err = ""
    /\ call.file = "A"
    /\ "Archive/A/note.md" \in DOMAIN call.before.files
    /\ "Archive/A/note.md" \notin DOMAIN files
    /\ "A/note 1.md" \in DOMAIN files

\* every document that was in the store before the call and still is, at
\* the path the call moved it to, holds the text it held
TextsKept ==
    \A f \in DOMAIN call.before.files :
        PathAfter(f, call.renamed) \in DOMAIN files =>
            files[PathAfter(f, call.renamed)] = call.before.files[f]

---------------------------------------------------------------------------
(* Properties of the undo window *)

\* performArchive found something at the destination that is not a folder
\* met by a folder
Conflict ==
    /\ call.op = "performArchive"
    /\ Exists(call.before, call.movedTo)
    /\ ~(IsFolder(call.before, call.file) /\ IsFolder(call.before, call.movedTo))

C21_WitnessFileOnFile ==
    Conflict /\ IsFile(call.before, call.file) /\ IsFile(call.before, call.movedTo)

C21_WitnessFolderOnFile ==
    Conflict /\ IsFolder(call.before, call.file) /\ IsFile(call.before, call.movedTo)

\* performUndo has run for an operation of the table
Undone == call.op = "performUndo" /\ call.operationId \in DOMAIN call.pendingBefore

\* C22: an undo whose archived item is no longer at the recorded destination
\* fails with 'no longer exists' and leaves the vault as it was: nothing is
\* moved or created, no document is modified
C22_UndoOfMissingItemChangesNothing ==
    (Undone /\ ~Exists(call.before, call.operation.destinationPath)) =>
        /\ call.notice = "Undo failed: Archived file no longer exists and cannot be restored"
        /\ Store(files, folders) = call.before

\* the archived item was deleted, and so was the folder it came from
C22_Witness ==
    /\ Undone
    /\ ~Exists(call.before, call.operation.destinationPath)
    /\ ~Exists(call.before, ParentPath(call.operation.originalPath))
    /\ ParentPath(call.operation.originalPath) # ""

\* performUndo has run for an archived item whose original path is taken
OccupiedUndo ==
    /\ Undone
    /\ Exists(call.before, call.operation.destinationPath)
    /\ Exists(call.before, call.operation.originalPath)

\* what was at or under a path before the call is there as it was
Untouched(path) ==
    \A e \in Entries(call.before) :
        (e = path \/ IsUnder(e, path)) =>
            /\ IsFolder(call.before, e) => e \in folders
            /\ IsFile(call.before, e) => e \in DOMAIN files /\ files[e] = call.before.files[e]

\* an undo onto a taken original path moves the archived item to the
\* disambiguated path beside it, leaves the entry at the original path as it
\* was, and names the new path in its notice
RestoredBesideOriginal ==
    OccupiedUndo =>
        \E n \in Numbers :
            LET uniquePath == Disambiguated(call.operation.originalPath, n)
            IN  /\ call.renamed = <<<<call.operation.destinationPath, uniquePath>>>>
                /\ Exists(Store(files, folders), uniquePath)
                /\ ~Exists(Store(files, folders), call.operation.destinationPath)
                /\ Untouched(call.operation.originalPath)
                /\ EndsWith(call.notice, "File restored to: " \o uniquePath)

\* C23: an undo onto a taken original path restores the item to the
\* disambiguated path beside the original, does not touch the entry that
\* took the original path, and reports the substituted path as a partial
\* success, not as a failed undo
C23_OccupiedUndoIsPartialSuccess ==
    /\ RestoredBesideOriginal
    /\ OccupiedUndo => ~StartsWith(call.notice, "Undo failed")

\* folder "A" was archived, something new was created at "A", the undo ran
C23_OccupiedFolder ==
    /\ OccupiedUndo
    /\ call.operation.originalPath = "A"
    /\ Exists(Store(files, folders), "A 1")

\* performUndo has run for an archived item whose original path is free
FreeUndo ==
    /\ Undone
    /\ Exists(call.before, call.operation.destinationPath)
    /\ ~Exists(call.before, call.operation.originalPath)

\* C24: an undo whose archived item is at the recorded destination and whose
\* original path is free moves the item, with what it holds, to exactly the
\* original path; the folders the original path lies in exist afterwards,
\* and nothing is left at the destination
C24_UndoMovesBackToOriginalPath ==
    FreeUndo =>
        LET operation == call.operation
            st == Store(files, folders)
        IN  /\ call.err = ""
            /\ call.renamed = <<<<operation.destinationPath, operation.originalPath>>>>
            /\ \A e \in Entries(call.before) :
                   (e = operation.destinationPath \/ IsUnder(e, operation.destinationPath)) =>
                       /\ ~Exists(st, e)
                       /\ IsFolder(call.before, e) <=>
                              IsFolder(st, Moved(e, operation.destinationPath,
                                                 operation.originalPath))
                       /\ IsFile(call.before, e) <=>
                              IsFile(st, Moved(e, operation.destinationPath,
                                               operation.originalPath))
            /\ \A folder \in Range(Ancestors(operation.originalPath)) : IsFolder(st, folder)

\* the folder the item came from had been deleted
C24_Witness ==
    /\ FreeUndo
    /\ \E folder \in Range(Ancestors(call.operation.originalPath)) :
           ~Exists(call.before, folder)
    /\ IsFile(Store(files, folders), call.operation.originalPath)

\* every update of the operation just undone, whose document held the
\* rewritten text before the undo, is reverted: the document holds the text
\* from before the archive
UpdatesReverted ==
    \A k \in 1..Len(call.operation.linkUpdates) :
        LET update == call.operation.linkUpdates[k]
            path == PathAfter(update.file, call.renamed)
        IN  (IsFile(call.before, update.file)
             /\ call.before.files[update.file] = update.newContent) =>
                /\ path \in DOMAIN files
                /\ files[path] = update.oldContent

\* an undo that moved the item back to its original path, every write
\* succeeding, has reverted the updates
RevertedWhenMovedBack ==
    (Undone /\ call.err = "" /\ call.failed = <<>>) => UpdatesReverted

\* C25: whenever an undo has moved the archived item out of the archive, to
\* the original path or to a disambiguated one, every link update the
\* archive applied is reverted when the undo has finished
C25_UndoRevertsWhatItMoved ==
    (Undone /\ call.renamed # <<>> /\ call.failed = <<>>) => UpdatesReverted

\* an undo moved the item to a disambiguated path and left a document rewritten
C25_MovedButNotReverted ==
    /\ OccupiedUndo
    /\ call.renamed # <<>>
    /\ ~UpdatesReverted

\* performUndo has run for an operation that is not in the table
UndoneLate == call.op = "performUndo" /\ call.operationId \notin DOMAIN call.pendingBefore

\* C26: a record expires at a fixed time after its creation, the undo timeout
\* of the settings and a second, whatever is edited meanwhile: it is never
\* in the table later than that, an undo takes effect only before that, and
\* an undo requested for a record that is gone moves nothing, modifies no
\* document and is reported as expired
C26_UndoOnlyUntilExpiry ==
    /\ \A id \in DOMAIN pending :
           /\ id \in DOMAIN timers.cleanup \ timers.expired
           /\ timers.ms <= timers.cleanup[id]
    /\ (call.op = "performArchive" /\ OperationId(flow.started) \in DOMAIN pending) =>
           timers.cleanup[OperationId(flow.started)]
               = timers.ms + settings.undoTimeoutMs + 1000
    /\ call.op = "edit" => pending = call.pendingBefore /\ timers = call.timersBefore
    /\ Undone => timers.ms <= timers.cleanup[call.operationId]
    /\ UndoneLate =>
           /\ Store(files, folders) = call.before
           /\ pending = call.pendingBefore
           /\ call.notice = "Undo operation has expired"

\* an undo was requested for a record that had expired, after an edit of a
\* document the archive rewrote
C26_Witness ==
    /\ UndoneLate
    /\ call.operationId \in timers.expired
    /\ \E path \in DOMAIN files : EndsWith(files[path], " edited")

\* performArchive could not move an item that is moved in one piece (not a
\* folder merged into a folder)
MoveFailed ==
    /\ call.op = "performArchive"
    /\ call.err # ""
    /\ ~(IsFolder(call.before, call.file) /\ IsFolder(call.before, call.movedTo))

\* C29: when the move of a single item fails, the item and what it holds are
\* still at the original path, no document has another text than before, no
\* link update counts as applied and no undo record is created
C29_FailedMoveWritesNothing ==
    MoveFailed =>
        /\ Exists(Store(files, folders), call.file)
        /\ Untouched(call.file)
        /\ \A path \in DOMAIN call.before.files :
               path \in DOMAIN files /\ files[path] = call.before.files[path]
        /\ ~call.applied /\ call.success = 0
        /\ pending = call.pendingBefore

\* the move failed with updates prepared, and not because the destination
\* was taken
C29_Witness ==
    /\ MoveFailed
    /\ ~Exists(call.before, call.movedTo)
    /\ Len(call.linkUpdates) > 0
    /\ settings.linkUpdateMode = "always"

\* the updates performArchive could write: the store does not refuse the
\* write and the document exists
Writable ==
    { k \in 1..Len(call.linkUpdates) :
        /\ call.linkUpdates[k].file \notin call.failing
        /\ IsFile(Store(files, folders), UpdatePaths[k]) }

\* C30: apply does not look at what a document holds: an update whose write
\* the store accepts is written and counted as a success whether or not the
\* document was edited after the update was prepared, and the document then
\* holds the prepared text
C30_EditsBetweenPrepareAndApplyAreLost ==
    (call.op = "performArchive" /\ call.err = "" /\ call.applied) =>
        /\ call.success = Cardinality(Writable)
        /\ \A k \in Writable :
               /\ UpdatePaths[k] \notin Range(call.failed)
               /\ files[UpdatePaths[k]] = LastUpdateFor(k).newContent

\* a document was edited while the confirmation dialog was open and holds
\* the prepared text after the archive
C30_Witness ==
    /\ call.op = "performArchive" /\ call.err = "" /\ call.applied
    /\ call.failed = <<>>
    /\ call.success = Len(call.linkUpdates)
    /\ \E k \in 1..Len(call.linkUpdates) :
           /\ call.before.files[call.linkUpdates[k].file]
                  = call.linkUpdates[k].oldContent \o " edited"
           /\ files[UpdatePaths[k]] = call.linkUpdates[k].newContent

---------------------------------------------------------------------------
(* Properties of the table of pending operations (under SpecTable) *)

\* the record of an operation is what it was before the call; the documents
\* its updates name are the same documents, wherever the call moved them
SameRecord(id) ==
    /\ id \in DOMAIN pending
    /\ pending[id] = PendingAfter(call.pendingBefore, call.renamed)[id]
    /\ pending[id].originalPath = call.pendingBefore[id].originalPath
    /\ pending[id].destinationPath = call.pendingBefore[id].destinationPath

\* C27: the table has one entry per operation id.  An operation recorded
\* while others are pending, with the same destination path or not, gets an
\* entry of its own and leaves theirs unchanged; an undo and an expiry
\* remove the entry of their own operation and no other
C27_OneEntryPerOperation ==
    /\ call.op = "performArchive" =>
           /\ OperationId(flow.started) \notin DOMAIN call.pendingBefore
           /\ \A id \in DOMAIN call.pendingBefore : SameRecord(id)
           /\ DOMAIN pending \subseteq DOMAIN call.pendingBefore \cup {OperationId(flow.started)}
           /\ call.err = "" => OperationId(flow.started) \in DOMAIN pending
    /\ Undone =>
           /\ \A id \in DOMAIN call.pendingBefore \ {call.operationId} : SameRecord(id)
           /\ call.err = "" => DOMAIN pending = DOMAIN call.pendingBefore \ {call.operationId}
    /\ call.op = "cleanup" =>
           /\ DOMAIN pending = DOMAIN call.pendingBefore \ {call.operationId}
           /\ \A id \in DOMAIN pending : pending[id] = call.pendingBefore[id]

\* a second operation with the destination path of a pending one was recorded
C27_Witness ==
    /\ call.op = "performArchive"
    /\ call.err = ""
    /\ \E id \in DOMAIN call.pendingBefore :
           call.pendingBefore[id].destinationPath
               = pending[OperationId(flow.started)].destinationPath

\* one of two pending operations was undone, the other expired later
C27_WitnessUndoAndExpiry ==
    /\ call.op = "cleanup"
    /\ call.operationId \in DOMAIN call.pendingBefore
    /\ flow.started > 0
    /\ pending = NoPending

\* a record enters the table only with an archive whose move completed, and
\* has left it once its operation is undone without error or its timeout
\* has run
RecordsOnlyOfCompletedMoves ==
    /\ call.op = "performArchive" =>
           /\ DOMAIN pending \ DOMAIN call.pendingBefore \subseteq {OperationId(flow.started)}
           /\ OperationId(flow.started) \in DOMAIN pending => call.err = ""
    /\ call.op \notin {"performArchive", "performUndo", "cleanup"} =>
           (call.op = "none" \/ "pendingBefore" \notin DOMAIN call
            \/ pending = call.pendingBefore)
    /\ (Undone /\ call.err = "") => call.operationId \notin DOMAIN pending
    /\ call.op = "cleanup" => call.operationId \notin DOMAIN pending

\* C28: a record is in the table of pending operations only if the archive
\* move it describes completed, it is absent once the operation is undone
\* successfully or its timeout has expired, and its originalPath and
\* destinationPath are the paths the item was moved from and to
C28_RecordsDescribeCompletedMoves ==
    /\ RecordsOnlyOfCompletedMoves
    /\ (call.op = "performArchive" /\ OperationId(flow.started) \in DOMAIN pending) =>
           /\ pending[OperationId(flow.started)].originalPath = call.file
           /\ pending[OperationId(flow.started)].destinationPath = call.movedTo

\* a record names a destination the item was not moved to
C28_RecordOfAnotherPath ==
    /\ call.op = "performArchive"
    /\ OperationId(flow.started) \in DOMAIN pending
    /\ pending[OperationId(flow.started)].destinationPath # call.movedTo
    /\ ~Exists(Store(files, folders), pending[OperationId(flow.started)].destinationPath)

---------------------------------------------------------------------------
(* Properties of the relative-path computation (under SpecRelative) *)

Outside == <<"<outside>">>

\* the segments reached from the segments of a directory by a relative
\* path, one part at a time; ".." above the vault root leads outside
RECURSIVE Walk(_, _)
Walk(stack, parts) ==
    IF stack = Outside \/ Len(parts) = 0 THEN stack
    ELSE IF parts[1] = ".." THEN
             IF Len(stack) = 0 THEN Outside ELSE Walk(Front(stack), Tail(parts))
    ELSE IF parts[1] = "." \/ parts[1] = "" THEN Walk(stack, Tail(parts))
    ELSE Walk(Append(stack, parts[1]), Tail(parts))

\* the vault path a relative path names from the directory of a document
Interpreted(fromPath, relative) ==
    Join(Walk(Front(Split(fromPath, "/")), Split(relative, "/")), "/")

\* C31: the relative path getRelativePath computes from a referencing
\* document to a target, interpreted from the directory of the referencing
\* document, is exactly the target path; it goes up once per directory of
\* the document that the target does not share, and only at its start
C31_RelativePathLeadsToTheTarget ==
    call.op = "getRelativePath" =>
        LET parts == Split(call.ret, "/")
            ups == { i \in 1..Len(parts) : parts[i] = ".." }
            fromParts == Front(Split(call.fromPath, "/"))
        IN  /\ Interpreted(call.fromPath, call.ret) = call.toPath
            /\ \A i \in ups : \A j \in 1..i : j \in ups
            /\ Cardinality(ups)
                   = Len(fromParts) - CommonLength(fromParts, Split(call.toPath, "/"))

\* from a document two folders deep to a document in another folder
C31_Witness ==
    /\ call.op = "getRelativePath"
    /\ call.fromPath = "a/b/n.md"
    /\ call.toPath = "a/a/n.md"
    /\ call.ret = "../a/n.md"

---------------------------------------------------------------------------
(* Properties of the configuration list (under SpecResolver) *)

\* a call of the path resolver on the list has returned
ResolverCall == call.op \in {"findArchiveConfig", "isFileInArchive"}

\* how often a configuration occurs in a list
Occurrences(cs, c) == Cardinality({ i \in 1..Len(cs) : cs[i] = c })

\* the list holds the configurations it held before the call, each as often
SameElements ==
    ResolverCall =>
        /\ Len(configs) = Len(call.configsBefore)
        /\ \A i \in 1..Len(configs) :
               Occurrences(configs, configs[i]) = Occurrences(call.configsBefore, configs[i])

\* C32: config selection and the archived check leave the configuration
\* list they are given as it was: the same elements in the same order
C32_ConfigListIsReadOnly ==
    ResolverCall => configs = call.configsBefore

\* findArchiveConfig has put a configuration with a longer root in front
C32_Reordered ==
    /\ call.op = "findArchiveConfig"
    /\ Len(call.configsBefore) = 2
    /\ configs = <<call.configsBefore[2], call.configsBefore[1]>>
    /\ configs # call.configsBefore

---------------------------------------------------------------------------
(* Properties of the paths assumed for the documents of a folder (under *)
(* SpecUndo)                                                             *)

\* the documents the folder of the call held when it was moved
DocumentsOfTheFolder ==
    { f \in MarkdownFiles(call.before) : IsUnder(f, call.file) }

\* the path prepareFolderLinkUpdates assumes for a document of the folder
AssumedPath(f) == call.destinationPath \o Substring(f, Len(call.file))

\* a folder was archived and its link updates were prepared
FolderArchived ==
    /\ call.op = "performArchive"
    /\ call.err = ""
    /\ ~call.isFile
    /\ settings.linkUpdateMode # "never"

\* C36: after a folder was archived, every document it held is at the path
\* assumed for it when the link updates were prepared, and that path held
\* no document of the archive before the move
C36_AssumedPathIsTheActualPath ==
    FolderArchived =>
        \A f \in DocumentsOfTheFolder :
            /\ PathAfter(f, call.renamed) = AssumedPath(f)
            /\ AssumedPath(f) \in DOMAIN files
            /\ AssumedPath(f) \notin DOMAIN call.before.files

\* without a merge the documents are at the assumed paths
AssumedPathsWithoutMerge ==
    (FolderArchived /\ ~IsFolder(call.before, call.destinationPath)) =>
        \A f \in DocumentsOfTheFolder :
            /\ PathAfter(f, call.renamed) = AssumedPath(f)
            /\ AssumedPath(f) \in DOMAIN files

---------------------------------------------------------------------------
(* Properties of the references between the documents of a moved folder *)
(* (under Spec)                                                           *)

\* a folder was archived and every prepared link update was written
FolderArchivedAndRewritten ==
    /\ call.op = "performArchive"
    /\ call.err = ""
    /\ ~call.isFile
    /\ call.applied
    /\ Len(call.failed) = 0

\* reference i of document d of the folder, which referred to document t of
\* the folder, refers to t where t is now, from where d is now; rewritten as
\* an inline link, its target is the path from where d is now
FollowsInsideTheFolder(d, i, t) ==
    LET at == PathAfter(d, call.renamed)
        was == References(call.before.files[d])[i]
        is == References(files[at])[i]
    IN  /\ ResolvesTo(Store(files, folders), is, at) = PathAfter(t, call.renamed)
        /\ (is.kind = "inline" /\ is.text # was.text)
               => LeadsTo(at, Trim(is.target), PathAfter(t, call.renamed))

\* C37: after a folder was archived and its link updates were written, a
\* reference from a document of the folder to a document of the folder (or
\* to itself) refers to that document at its new path, and a relative
\* target written into it leads there from the new place of the document
C37_ReferencesInsideTheFolderFollow ==
    FolderArchivedAndRewritten =>
        \A d \in DocumentsOfTheFolder :
            PathAfter(d, call.renamed) \in DOMAIN files =>
                LET was == References(call.before.files[d])
                    is == References(files[PathAfter(d, call.renamed)])
                IN  /\ Len(is) = Len(was)
                    /\ \A i \in 1..Len(was) :
                           LET t == ResolvesTo(call.before, was[i], d)
                           IN  t \in DocumentsOfTheFolder
                                   => FollowsInsideTheFolder(d, i, t)

---------------------------------------------------------------------------
(* Properties of the undo in flight (under SpecInFlight) *)

\* the executions of performUndo for an operation
Executions(operationId) ==
    { k \in 1..Len(flow.undo) : flow.undo[k].operationId = operationId }

UndoSucceeded(k) == flow.undo[k].notice = "Archive operation undone successfully"

\* C38: an operation is undone at most once: whatever runs between the
\* steps of performUndo, at most one execution of performUndo is started for
\* an operation id, so its item is moved out of the archive at most once, its
\* link updates are reverted at most once and success is reported at most
\* once; while the execution is in flight its notice has no Undo button
C38_UndoneAtMostOnce ==
    \A operationId \in { flow.undo[k].operationId : k \in 1..Len(flow.undo) } :
        LET started == Executions(operationId)
        IN  /\ Cardinality(started) <= 1
            /\ Cardinality({ k \in started : flow.undo[k].moved }) <= 1
            /\ Cardinality({ k \in started : flow.undo[k].reverted }) <= 1
            /\ Cardinality({ k \in started : UndoSucceeded(k) }) <= 1
            /\ operationId \notin DOMAIN timers.hide

\* the undo of an operation is in flight: its item is moved back, its link
\* updates are not yet reverted, its record is still in the table, and the
\* plugin is ready for the next event
C38_Witness ==
    /\ call.op = "none"
    /\ \E k \in 1..Len(flow.undo) :
           /\ flow.undo[k].pc = "reverting"
           /\ flow.undo[k].moved
           /\ flow.undo[k].operationId \in DOMAIN pending
           /\ flow.undo[k].operationId \notin DOMAIN timers.hide

---------------------------------------------------------------------------
(* Properties of a document two operations rewrote (under SpecShared) *)

\* every reference the update rewrote is in the document as the update wrote it
RewritesIntact(update) ==
    LET was == Spans(update.oldContent, 1)
        to == Spans(update.newContent, 1)
        is == Spans(files[update.file], 1)
    IN  /\ Len(is) = Len(was)
        /\ \A i \in 1..Len(was) : to[i].text # was[i].text => is[i].text = to[i].text

\* the undo of operation m has moved its item back and written its reverse
\* link updates
UndoneAndReverted(m) ==
    /\ call.op = "performUndo"
    /\ call.operationId = OperationId(m)
    /\ call.err = ""
    /\ call.reverted
    /\ Len(call.failed) = 0

\* the documents the link updates of the undone operation name
RevertedDocuments ==
    { PathAfter(call.operation.linkUpdates[j].file, call.renamed) :
        j \in 1..Len(call.operation.linkUpdates) }

\* C39: when an operation and then a later one rewrote references in the
\* same document, the undo of the earlier one leaves the references the
\* later one rewrote in that document as the later one wrote them
C39_UndoKeepsLaterRewrites ==
    \A m \in 0..MaxOps, n \in 0..MaxOps :
        ( /\ m < n
          /\ UndoneAndReverted(m)
          /\ OperationId(n) \in DOMAIN pending )
        => \A k \in 1..Len(pending[OperationId(n)].linkUpdates) :
               LET update == pending[OperationId(n)].linkUpdates[k]
               IN  (update.file \in RevertedDocuments /\ update.file \in DOMAIN files)
                       => RewritesIntact(update)

---------------------------------------------------------------------------
(* Properties of the life of a record (under SpecExpiry) *)

\* the operations whose expiry timeout is set and has not run
Expiring == DOMAIN timers.cleanup \ timers.expired

\* C40: every record in the table of pending operations has an expiry
\* timeout that has not run yet, so the table holds no more records than
\* operations archived within the last undo window; and every record in the
\* table is eventually out of it, by an undo or by its expiry timeout,
\* whether or not an undo of it has failed
C40_RecordsAreEventuallyRemoved ==
    /\ [](DOMAIN pending \subseteq Expiring)
    /\ \A n \in 0..MaxOps :
           (OperationId(n) \in DOMAIN pending) ~> (OperationId(n) \notin DOMAIN pending)

\* the expiry timeout has removed the record of an operation whose undo had
\* failed: its item was restored beside the occupied original path
C40_Witness ==
    /\ call.op = "cleanup"
    /\ call.operationId \in DOMAIN call.pendingBefore
    /\ call.operationId \notin DOMAIN pending
    /\ call.operationId \notin DOMAIN timers.hide
    /\ \E i \in Numbers :
           Exists(Store(files, folders),
                  Disambiguated(call.pendingBefore[call.operationId].originalPath, i))

===========================================================================
